---- MODULE Spec2Model ----
(***************************************************************************)
(* Order execution engine of AI-Trader (agent_tools/tool_trade.py) with    *)
(* its position store, position lock, ledger and chain dispatch, and the   *)
(* gas pricing cache and the token transfer with memo of the chain client  *)
(* (agent_tools/blockchain/evm.py).                                        *)
(*                                                                         *)
(* Money is counted in integer currency units (the code uses floats; every *)
(* property below is about sums and products that are exact here).         *)
(***************************************************************************)
EXTENDS Integers, Sequences, FiniteSets, TLC

VARIABLES
    useBlockchain,  \* USE_BLOCKCHAIN_POSITION of the process environment
    signature,      \* runtime config SIGNATURE: "none" when not set
    today,          \* runtime config TODAY_DATE
    storePos,       \* what the store serves without a ledger record: the
                    \* configured initial position, or the on-chain balances
    ledger,         \* position.jsonl: sequence of ActionRecords
    ifTrade,        \* runtime config IF_TRADE
    lockHolder,     \* task holding flock(LOCK_EX) on .position.lock, or NoTask
    calls,          \* number of buy/sell calls started so far
    pc,             \* per task: position in buy/sell
    op,             \* per task: "buy" or "sell"
    sym,            \* per task: symbol argument
    amt,            \* per task: amount argument
    tdate,          \* per task: today_date read at the start of the call
    cur,            \* per task: current_position
    curId,          \* per task: current_action_id
    newPos,         \* per task: new_position
    rs,             \* per task: what the last call returned or raised
    fx,             \* per task: what the call in progress / the last call did:
                    \* "lock", "read", "append", "chain", "chainfail", "flag"
    tx,             \* per task: the transfer the call handed to
                    \* send_token_with_memo, or NoTx
    now,            \* time.time(), in whole time units
    gasPriceCache,      \* EVMClient._gas_price_cache (NoSnapshot: None)
    gasPriceCacheTime,  \* EVMClient._gas_price_cache_time
    gpc,            \* position in get_gas_pricing_data: "idle", "fetch", "sleep"
    attempt,        \* loop variable of get_gas_pricing_data
    currentTime,    \* current_time of the get_gas_pricing_data call
    wakeAt,         \* end of the asyncio.sleep(COOLDOWN) in progress
    gasCalls,       \* number of get_gas_pricing_data calls started so far
    gasResult,      \* what the last get_gas_pricing_data call returned or raised
    co,             \* per coroutine sharing the client: its position in
                    \* get_gas_pricing_data, attempt, current_time, end of
                    \* its sleep, the cache and stamp it read, its calls
    blockchain,     \* EVMClient.blockchain of the client followed
    mempool,        \* sender and nonce of the transactions the node accepted
                    \* from send_raw_transaction, in order
    sendCalls,      \* number of send_token_with_memo calls started so far
    spc,            \* per sender: position in send_token_with_memo
    sarg,           \* per sender: arguments of the call
    accountData,    \* per sender: account_data, or NoAccount
    gasData,        \* per sender: gas_data and whether the cache served it
    transaction,    \* per sender: the transaction dictionary, or NoTx
    sfx,            \* per sender: the steps the call performed, in order
    sres,           \* per sender: what the last call returned or raised
    signed,         \* what the last direct _sign_transaction call did
    scanKeeps,      \* which of several records with the highest id the scan
                    \* of get_latest_position keeps
    replay          \* what the last replayed get_latest_position returned,
                    \* and the length of the ledger it read

tradeVars == <<useBlockchain, signature, today, storePos, ledger, ifTrade,
               lockHolder, calls, pc, op, sym, amt, tdate, cur, curId, newPos,
               rs, fx, tx>>

gasVars == <<now, gasPriceCache, gasPriceCacheTime, gpc, attempt, currentTime,
             wakeAt, gasCalls, gasResult, co>>

sendVars == <<blockchain, mempool, sendCalls, spc, sarg, accountData, gasData,
              transaction, sfx, sres, signed>>

readVars == <<scanKeeps, replay>>

vars == <<tradeVars, gasVars, sendVars, readVars>>

-----------------------------------------------------------------------------
(* Bounds and inputs *)

MaxCalls == 2       \* calls started in a run with concurrent calls
MaxSeqCalls == 3    \* calls started in a run with one call at a time
MaxDate == 2        \* trading days

Tasks == {"t1", "t2"}
NoTask == "nobody"

US == "AAPL"
CN == "600519.SH"
Unlisted == "ZZZZ"
Symbols == {US, CN, Unlisted}
\* The (symbol, amount) arguments the calls are made with
Orders ==
    ({US} \X {-100, 100}) \cup ({CN} \X {-100, 100, 101, 200})
        \cup ({Unlisted} \X {100})
Dates == 1..MaxDate

NoPos == << >>
NoResult == [kind |-> "none"]

\* Positions the store can be configured with / find on chain.
StorePositions ==
    { [k \in {"CASH"} |-> 20000],
      [k \in {"CASH", US, CN} |-> IF k = "CASH" THEN 20000 ELSE 100],
      [k \in {US, CN} |-> 100] }

-----------------------------------------------------------------------------
(* Pure helpers *)

Get(p, k, d) == IF k \in DOMAIN p THEN p[k] ELSE d

Put(p, k, v) == [x \in (DOMAIN p) \cup {k} |-> IF x = k THEN v ELSE p[x]]

\* symbol.endswith((".SH", ".SZ"))
Market(symbol) == IF symbol = CN THEN "cn" ELSE "us"

\* get_open_prices(today_date, [symbol])[f"{symbol}_price"]; 0 stands for KeyError
OpenPrice(d, symbol) ==
    IF symbol = US THEN 149 + d
    ELSE IF symbol = CN THEN 9 + d
    ELSE 0

PriceKnown(d, symbol) == symbol \in {US, CN}

\* Mutant of LotViolation: only a minimum lot is enforced
LotViolationMinLot(symbol, amount) == Market(symbol) = "cn" /\ amount < 100

\* Lot-size rule of the CN market: amount % 100 != 0
LotViolation(symbol, amount) == Market(symbol) = "cn" /\ amount % 100 # 0

\* The two quantities named by the "suggestion" text
LotSuggestion(amount) ==
    << (amount \div 100) * 100, ((amount \div 100) + 1) * 100 >>

LotError(o, symbol, amount) ==
    [kind |-> "error", error |-> "LotSize", action |-> o, symbol |-> symbol,
     amount |-> amount, suggestion |-> LotSuggestion(amount)]

\* Records of the ledger that carry the highest id
MaxIdRecords(led) ==
    { i \in 1..Len(led) : \A j \in 1..Len(led) : led[j].id <= led[i].id }

\* get_latest_position: the (position, lastId) pairs a read may return
LatestPosition(led, chain, base) ==
    IF chain THEN { <<base, -1>> }
    ELSE IF led = << >> THEN { <<base, 0>> }
    ELSE { <<led[i].positions, led[i].id>> : i \in MaxIdRecords(led) }

\* get_latest_position as one scan computes it: of the records that share the
\* highest id it keeps the first or the last in the file
LatestPositionBy(keeps, led, chain, base) ==
    IF chain THEN <<base, -1>>
    ELSE IF led = << >> THEN <<base, 0>>
    ELSE LET i == CHOOSE k \in MaxIdRecords(led) :
                      \A j \in MaxIdRecords(led) :
                          IF keeps = "first" THEN k <= j ELSE k >= j
         IN  <<led[i].positions, led[i].id>>

RECURSIVE TodayBuyAmount(_, _, _)
\* _get_today_buy_amount: total amount of the date's recorded buys of the symbol
TodayBuyAmount(led, symbol, d) ==
    IF led = << >> THEN 0
    ELSE LET r == led[Len(led)]
             rest == TodayBuyAmount(SubSeq(led, 1, Len(led) - 1), symbol, d)
         IN IF r.date = d /\ r.action = "buy" /\ r.symbol = symbol
            THEN rest + r.amount
            ELSE rest

\* new_position of buy: copy, CASH = cash_left, new_position[symbol] += amount
BuyNewPosition(pos, symbol, amount, cashLeft) ==
    Put(Put(pos, "CASH", cashLeft), symbol, pos[symbol] + amount)

\* buy, steps 3 to 5: price lookup, cash check, new position
BuyValidate(pos, d, symbol, amount) ==
    IF ~PriceKnown(d, symbol)
    THEN [kind |-> "error", error |-> "SymbolNotFound", symbol |-> symbol]
    ELSE IF "CASH" \notin DOMAIN pos
    THEN [kind |-> "raised", exc |-> "UnboundLocalError"]
    ELSE LET cashLeft == pos["CASH"] - OpenPrice(d, symbol) * amount IN
         IF cashLeft < 0
         THEN [kind |-> "error", error |-> "InsufficientCash",
               required_cash |-> OpenPrice(d, symbol) * amount,
               cash_available |-> Get(pos, "CASH", 0)]
         ELSE IF symbol \notin DOMAIN pos
         THEN [kind |-> "raised", exc |-> "KeyError"]
         ELSE [kind |-> "ok", pos |-> BuyNewPosition(pos, symbol, amount, cashLeft)]

\* Mutant of SellNewPosition: the proceeds are subtracted from the cash
SellNewPositionSignSlip(pos, symbol, amount, price) ==
    LET dec == Put(pos, symbol, pos[symbol] - amount)
    IN  Put(dec, "CASH", Get(dec, "CASH", 0) - price * amount)

\* new_position of sell: copy, new_position[symbol] -= amount, CASH += price*amount
SellNewPosition(pos, symbol, amount, price) ==
    LET dec == Put(pos, symbol, pos[symbol] - amount)
    IN  Put(dec, "CASH", Get(dec, "CASH", 0) + price * amount)

\* Mutant of T1Violation: the shares bought today are not subtracted
T1ViolationNoSubtract(pos, symbol, amount, boughtToday) ==
    /\ Market(symbol) = "cn"
    /\ boughtToday > 0
    /\ amount > pos[symbol]

\* The T+1 check of sell
T1Violation(pos, symbol, amount, boughtToday) ==
    /\ Market(symbol) = "cn"
    /\ boughtToday > 0
    /\ amount > pos[symbol] - boughtToday

Max0(x) == IF x > 0 THEN x ELSE 0

\* Mutant of SellValidate: the position is checked before the price lookup
SellValidateNoPositionFirst(pos, d, symbol, amount, boughtToday) ==
    IF symbol \notin DOMAIN pos
    THEN [kind |-> "error", error |-> "NoPosition", symbol |-> symbol]
    ELSE IF ~PriceKnown(d, symbol)
    THEN [kind |-> "error", error |-> "SymbolNotFound", symbol |-> symbol]
    ELSE IF pos[symbol] < amount
    THEN [kind |-> "error", error |-> "InsufficientShares",
          have |-> Get(pos, symbol, 0), want_to_sell |-> amount]
    ELSE IF T1Violation(pos, symbol, amount, boughtToday)
    THEN [kind |-> "error", error |-> "T1Violation",
          total_position |-> pos[symbol], bought_today |-> boughtToday,
          sellable_today |-> Max0(pos[symbol] - boughtToday),
          want_to_sell |-> amount]
    ELSE [kind |-> "ok",
          pos |-> SellNewPosition(pos, symbol, amount, OpenPrice(d, symbol))]

\* sell, steps 3 to 5: price lookup, position checks, T+1, new position
SellValidate(pos, d, symbol, amount, boughtToday) ==
    IF ~PriceKnown(d, symbol)
    THEN [kind |-> "error", error |-> "SymbolNotFound", symbol |-> symbol]
    ELSE IF symbol \notin DOMAIN pos
    THEN [kind |-> "error", error |-> "NoPosition", symbol |-> symbol]
    ELSE IF pos[symbol] < amount
    THEN [kind |-> "error", error |-> "InsufficientShares",
          have |-> Get(pos, symbol, 0), want_to_sell |-> amount]
    ELSE IF T1Violation(pos, symbol, amount, boughtToday)
    THEN [kind |-> "error", error |-> "T1Violation",
          total_position |-> pos[symbol], bought_today |-> boughtToday,
          sellable_today |-> Max0(pos[symbol] - boughtToday),
          want_to_sell |-> amount]
    ELSE [kind |-> "ok",
          pos |-> SellNewPosition(pos, symbol, amount, OpenPrice(d, symbol))]

\* Mutant of NextId: the last id is used again
NextIdReused(lastId) == lastId

\* id of the record to append
NextId(lastId) == lastId + 1

ActionRecord(d, lastId, o, symbol, amount, pos) ==
    [date |-> d, id |-> NextId(lastId), action |-> o, symbol |-> symbol,
     amount |-> amount, positions |-> pos]

-----------------------------------------------------------------------------
(* Chain dispatch *)

\* ARB_WALLET_ADDRESS as a call finds it: not set (or empty), or the address
\* of one of two accounts, as characters
Wallets == {<< >>, <<"0", "x", "A", "b">>, <<"0", "x", "C", "d">>}
\* ARB_PRIVATE_KEY as a call finds it ("none": not set)
Keys == {"none", "keyA"}

\* Symbols with an entry in STOCK_ADDRESS: the table a call finds lists the
\* US symbol, and the CN symbol or not
StockAddresses == {{US}, {US, CN}}

\* What the network answers during one send_token_with_memo
SendEnvs ==
    [keyValid : BOOLEAN, accountOk : BOOLEAN, balance : {0, 1},
     gasOk : BOOLEAN, broadcastOk : BOOLEAN]

\* send_token_with_memo on the Arbitrum client: the transaction hash, or the
\* failure it raises (every failure is re-raised as Exception with the cause)
SendTokenWithMemo(env) ==
    IF ~env.keyValid THEN [ok |-> FALSE, cause |-> "from_key"]
    ELSE IF ~env.accountOk THEN [ok |-> FALSE, cause |-> "account_data"]
    ELSE IF ~env.gasOk THEN [ok |-> FALSE, cause |-> "gas_pricing"]
    ELSE IF env.balance = 0 THEN [ok |-> FALSE, cause |-> "insufficient_gas_balance"]
    ELSE IF ~env.broadcastOk THEN [ok |-> FALSE, cause |-> "send_raw_transaction"]
    ELSE [ok |-> TRUE, cause |-> "none"]

\* The try block of the blockchain branch of buy/sell: "sent" tells whether
\* the chain client was invoked, "ok" whether a transaction hash came back
ChainSubmit(wallet, key, symbol, stocks, env) ==
    IF wallet = << >> \/ key = "none"
    THEN [sent |-> FALSE, ok |-> FALSE, cause |-> "wallet_or_key_not_set"]
    ELSE IF symbol \notin stocks
    THEN [sent |-> FALSE, ok |-> FALSE, cause |-> "token_address_not_found"]
    ELSE LET r == SendTokenWithMemo(env)
         IN  [sent |-> TRUE, ok |-> r.ok, cause |-> r.cause]

UsdcDecimals == 6       \* USDC has 6 decimals
StockDecimals == 18     \* stock tokens have 18 decimals
ExpiryDays == 2         \* default of the expiry_days parameter

\* USDC_ADDRESSES["arbitrum"], TRADING_ADDRESS, STOCK_ADDRESS[symbol].token_address
UsdcAddress == "usdc"
TradingAddress == "trading"
StockTokenAddress(symbol) == <<"token", symbol>>

NoTx == [token_address |-> "none"]

\* The integer units * 10 ** decimals (beyond the range of the model's integers)
Wei(units, decimals) == [units |-> units, decimals |-> decimals]

RECURSIVE Digits(_)
\* Decimal digits of n >= 0, most significant first
Digits(n) ==
    LET d == <<"0", "1", "2", "3", "4", "5", "6", "7", "8", "9">>[(n % 10) + 1]
    IN  IF n < 10 THEN <<d>> ELSE Append(Digits(n \div 10), d)

\* str() of the integer w
IntStr(w) ==
    IF w.units = 0 THEN <<"0">>
    ELSE (IF w.units < 0 THEN <<"-">> \o Digits(0 - w.units) ELSE Digits(w.units))
            \o [i \in 1..w.decimals |-> "0"]

\* usdc_amount_wei and stock_amount_wei
UsdcAmountWei(price, amount) == Wei(price * amount, UsdcDecimals)
StockAmountWei(amount) == Wei(amount, StockDecimals)

\* Mutant of OrderMemo: a sell is written with the request and offer of a buy
OrderMemoAsBuy(o, wallet, symbol, amount, price) ==
    [did_id |-> wallet,
     request |-> IntStr(StockAmountWei(amount)),
     offer |-> IntStr(UsdcAmountWei(price, amount)),
     type |-> "LIMIT",
     token_address |-> StockTokenAddress(symbol),
     customer_id |-> "SVIM",
     expiry_days |-> ExpiryDays]

\* The memo dictionary of the limit order
OrderMemo(o, wallet, symbol, amount, price) ==
    [did_id |-> wallet,
     request |-> IntStr(IF o = "buy" THEN StockAmountWei(amount)
                        ELSE UsdcAmountWei(price, amount)),
     offer |-> IntStr(IF o = "buy" THEN UsdcAmountWei(price, amount)
                      ELSE StockAmountWei(amount)),
     type |-> "LIMIT",
     token_address |-> StockTokenAddress(symbol),
     customer_id |-> "SVIM",
     expiry_days |-> ExpiryDays]

\* The arguments of ARBITRUM_CLIENT.send_token_with_memo
OrderTransfer(o, wallet, private_key, symbol, amount, price) ==
    [token_address |-> IF o = "buy" THEN UsdcAddress ELSE StockTokenAddress(symbol),
     recipient_address |-> TradingAddress,
     amount |-> IF o = "buy" THEN UsdcAmountWei(price, amount)
                ELSE StockAmountWei(amount),
     memo |-> OrderMemo(o, wallet, symbol, amount, price),
     private_key |-> private_key]

NoSnapshot == [block_number |-> -1]

\* Mutant of ChainError: the failure is raised to the caller
ChainErrorRaised(cause, symbol) == [kind |-> "raised", exc |-> cause]

\* The error result of the except clause of the blockchain branch
ChainError(cause, symbol) ==
    [kind |-> "error", error |-> "BlockchainTransactionFailed",
     cause |-> cause, symbol |-> symbol]

-----------------------------------------------------------------------------
(* State machine *)

\* Coroutines of one event loop that call get_gas_pricing_data on the client
Callers == {"c1", "c2"}

IdleCaller ==
    [pc |-> "idle", attempt |-> 0, current_time |-> 0, wakeAt |-> 0,
     seen |-> NoSnapshot, seenTime |-> 0, calls |-> 0]

\* enum Blockchain: the networks a client can be built for
Blockchains == {"ETHEREUM", "ARBITRUM", "BASE", "BNB"}

\* Callers of send_token_with_memo on the client
Senders == {"s1", "s2"}

NoAccount == [nonce |-> -1]
NoGasData == [cached |-> FALSE, snap |-> NoSnapshot]
NoSigned == [kind |-> "none"]

\* EVMClient.__init__ for the given network, no call made yet
ClientInit(chain) ==
    /\ blockchain = chain
    /\ mempool = << >>
    /\ sendCalls = 0
    /\ spc = [s \in Senders |-> "idle"]
    /\ sarg = [s \in Senders |->
                 [private_key |-> "", recipient_address |-> "", memo_text |-> << >>]]
    /\ accountData = [s \in Senders |-> NoAccount]
    /\ gasData = [s \in Senders |-> NoGasData]
    /\ transaction = [s \in Senders |-> NoTx]
    /\ sfx = [s \in Senders |-> << >>]
    /\ sres = [s \in Senders |-> NoResult]
    /\ signed = NoSigned

\* The process at start: environment, runtime config, empty ledger, no call
\* in progress, a cold gas cache
EngineStart ==
    /\ useBlockchain \in BOOLEAN
    /\ signature \in {"none", "agent"}
    /\ today = 1
    /\ storePos \in StorePositions
    /\ ledger = << >>
    /\ ifTrade = FALSE
    /\ lockHolder = NoTask
    /\ calls = 0
    /\ pc = [t \in Tasks |-> "idle"]
    /\ op = [t \in Tasks |-> "buy"]
    /\ sym = [t \in Tasks |-> US]
    /\ amt = [t \in Tasks |-> 0]
    /\ tdate = [t \in Tasks |-> 1]
    /\ cur = [t \in Tasks |-> NoPos]
    /\ curId = [t \in Tasks |-> 0]
    /\ newPos = [t \in Tasks |-> NoPos]
    /\ rs = [t \in Tasks |-> NoResult]
    /\ fx = [t \in Tasks |-> {}]
    /\ tx = [t \in Tasks |-> NoTx]
    /\ now = 0
    /\ gasPriceCache = NoSnapshot
    /\ gasPriceCacheTime = 0
    /\ gpc = "idle"
    /\ attempt = 0
    /\ currentTime = 0
    /\ wakeAt = 0
    /\ gasCalls = 0
    /\ gasResult = NoResult
    /\ co = [c \in Callers |-> IdleCaller]

\* The ways the scan can treat records that share the highest id
ScanKeeps == {"first", "last"}

NoReplay == [at |-> -1, position |-> NoPos, lastId |-> 0]

\* The process at start with no read replayed; the reads of buy and sell may
\* return any of the tied records, so the scan's choice is not followed there
EngineInit ==
    /\ EngineStart
    /\ scanKeeps = "first"
    /\ replay = NoReplay

\* tool_trade imports ARBITRUM_CLIENT
Init == EngineInit /\ ClientInit("ARBITRUM")

\* The call returns or raises r
Return(t, r) ==
    /\ rs' = [rs EXCEPT ![t] = r]
    /\ pc' = [pc EXCEPT ![t] = "idle"]

\* Mutant of Call: the lot size is checked before the identity
CallLotFirst(t, o, s, a) ==
    /\ pc[t] = "idle"
    /\ calls' = calls + 1
    /\ op' = [op EXCEPT ![t] = o]
    /\ sym' = [sym EXCEPT ![t] = s]
    /\ amt' = [amt EXCEPT ![t] = a]
    /\ cur' = [cur EXCEPT ![t] = NoPos]
    /\ curId' = [curId EXCEPT ![t] = 0]
    /\ newPos' = [newPos EXCEPT ![t] = NoPos]
    /\ fx' = [fx EXCEPT ![t] = {}]
    /\ tx' = [tx EXCEPT ![t] = NoTx]
    /\ tdate' = [tdate EXCEPT ![t] = today]
    /\ IF LotViolation(s, a)
       THEN Return(t, LotError(o, s, a))
       ELSE IF signature = "none"
       THEN Return(t, [kind |-> "raised", exc |-> "ValueError"])
       ELSE /\ rs' = [rs EXCEPT ![t] = NoResult]
            /\ pc' = [pc EXCEPT ![t] = IF o = "buy" THEN "lock" ELSE "read"]
    /\ UNCHANGED <<readVars, sendVars, gasVars, useBlockchain, signature, today, storePos, ledger, ifTrade,
                   lockHolder>>

\* buy(symbol, amount) / sell(symbol, amount) up to the lot-size check
Call(t, o, s, a) ==
    /\ pc[t] = "idle"
    /\ calls' = calls + 1
    /\ op' = [op EXCEPT ![t] = o]
    /\ sym' = [sym EXCEPT ![t] = s]
    /\ amt' = [amt EXCEPT ![t] = a]
    /\ cur' = [cur EXCEPT ![t] = NoPos]
    /\ curId' = [curId EXCEPT ![t] = 0]
    /\ newPos' = [newPos EXCEPT ![t] = NoPos]
    /\ fx' = [fx EXCEPT ![t] = {}]
    /\ tx' = [tx EXCEPT ![t] = NoTx]
    /\ IF signature = "none"
       THEN /\ Return(t, [kind |-> "raised", exc |-> "ValueError"])
            /\ UNCHANGED tdate
       ELSE /\ tdate' = [tdate EXCEPT ![t] = today]
            /\ IF LotViolation(s, a)
               THEN Return(t, LotError(o, s, a))
               ELSE /\ rs' = [rs EXCEPT ![t] = NoResult]
                    /\ pc' = [pc EXCEPT ![t] = IF o = "buy" THEN "lock" ELSE "read"]
    /\ UNCHANGED <<readVars, sendVars, gasVars, useBlockchain, signature, today, storePos, ledger, ifTrade,
                   lockHolder>>

\* buy: with _position_lock(signature) -- __enter__
Acquire(t) ==
    /\ pc[t] = "lock"
    /\ lockHolder = NoTask
    /\ lockHolder' = t
    /\ pc' = [pc EXCEPT ![t] = "read"]
    /\ fx' = [fx EXCEPT ![t] = @ \cup {"lock"}]
    /\ UNCHANGED <<readVars, sendVars, gasVars, tx, useBlockchain, signature, today, storePos, ledger, ifTrade,
                   calls, op, sym, amt, tdate, cur, curId, newPos, rs>>

\* variant of BuyRead whose with block never reaches __exit__
BuyReadKeepsLock(t) ==
    /\ pc[t] = "read"
    /\ op[t] = "buy"
    /\ fx' = [fx EXCEPT ![t] = @ \cup {"read"}]
    /\ \/ \E r \in LatestPosition(ledger, useBlockchain, storePos) :
             /\ cur' = [cur EXCEPT ![t] = r[1]]
             /\ curId' = [curId EXCEPT ![t] = r[2]]
             /\ pc' = [pc EXCEPT ![t] = "compute"]
             /\ UNCHANGED rs
       \/ /\ Return(t, [kind |-> "error", error |-> "FailedToLoadPosition",
                        symbol |-> sym[t]])
          /\ UNCHANGED <<cur, curId>>
    /\ UNCHANGED <<readVars, sendVars, gasVars, tx, useBlockchain, signature, today, storePos, ledger, ifTrade,
                   lockHolder, calls, op, sym, amt, tdate, newPos>>

\* Mutant of BuyRead: __exit__ runs only when the read succeeded
BuyReadLeaksOnFailure(t) ==
    /\ pc[t] = "read"
    /\ op[t] = "buy"
    /\ fx' = [fx EXCEPT ![t] = @ \cup {"read"}]
    /\ \/ \E r \in LatestPosition(ledger, useBlockchain, storePos) :
             /\ cur' = [cur EXCEPT ![t] = r[1]]
             /\ curId' = [curId EXCEPT ![t] = r[2]]
             /\ pc' = [pc EXCEPT ![t] = "compute"]
             /\ lockHolder' = NoTask
             /\ UNCHANGED rs
       \/ /\ Return(t, [kind |-> "error", error |-> "FailedToLoadPosition",
                        symbol |-> sym[t]])
          /\ UNCHANGED <<cur, curId, lockHolder>>
    /\ UNCHANGED <<readVars, sendVars, gasVars, tx, useBlockchain, signature, today, storePos, ledger, ifTrade,
                   calls, op, sym, amt, tdate, newPos>>

\* buy: get_latest_position inside the with block, then __exit__
BuyRead(t) ==
    /\ pc[t] = "read"
    /\ op[t] = "buy"
    /\ lockHolder' = NoTask
    /\ fx' = [fx EXCEPT ![t] = @ \cup {"read"}]
    /\ \/ \E r \in LatestPosition(ledger, useBlockchain, storePos) :
             /\ cur' = [cur EXCEPT ![t] = r[1]]
             /\ curId' = [curId EXCEPT ![t] = r[2]]
             /\ pc' = [pc EXCEPT ![t] = "compute"]
             /\ UNCHANGED rs
       \/ /\ Return(t, [kind |-> "error", error |-> "FailedToLoadPosition",
                        symbol |-> sym[t]])
          /\ UNCHANGED <<cur, curId>>
    /\ UNCHANGED <<readVars, sendVars, gasVars, tx, useBlockchain, signature, today, storePos, ledger, ifTrade,
                   calls, op, sym, amt, tdate, newPos>>

\* Mutant of SellRead: the failure of the read is caught as in buy
SellReadCaught(t) ==
    /\ pc[t] = "read"
    /\ op[t] = "sell"
    /\ fx' = [fx EXCEPT ![t] = @ \cup {"read"}]
    /\ \/ \E r \in LatestPosition(ledger, useBlockchain, storePos) :
             /\ cur' = [cur EXCEPT ![t] = r[1]]
             /\ curId' = [curId EXCEPT ![t] = r[2]]
             /\ pc' = [pc EXCEPT ![t] = "compute"]
             /\ UNCHANGED rs
       \/ /\ Return(t, [kind |-> "error", error |-> "FailedToLoadPosition",
                        symbol |-> sym[t]])
          /\ UNCHANGED <<cur, curId>>
    /\ UNCHANGED <<readVars, sendVars, gasVars, tx, useBlockchain, signature, today, storePos, ledger, ifTrade,
                   lockHolder, calls, op, sym, amt, tdate, newPos>>

\* sell: get_latest_position, outside any lock; its failure propagates
SellRead(t) ==
    /\ pc[t] = "read"
    /\ op[t] = "sell"
    /\ fx' = [fx EXCEPT ![t] = @ \cup {"read"}]
    /\ \/ \E r \in LatestPosition(ledger, useBlockchain, storePos) :
             /\ cur' = [cur EXCEPT ![t] = r[1]]
             /\ curId' = [curId EXCEPT ![t] = r[2]]
             /\ pc' = [pc EXCEPT ![t] = "compute"]
             /\ UNCHANGED rs
       \/ /\ Return(t, [kind |-> "raised", exc |-> "Exception"])
          /\ UNCHANGED <<cur, curId>>
    /\ UNCHANGED <<readVars, sendVars, gasVars, tx, useBlockchain, signature, today, storePos, ledger, ifTrade,
                   lockHolder, calls, op, sym, amt, tdate, newPos>>

\* Mutant of Validated: the order-occurred flag is written before validation
ValidatedFlagFirst(t, v) ==
    /\ IF v.kind = "ok"
       THEN /\ newPos' = [newPos EXCEPT ![t] = v.pos]
            /\ pc' = [pc EXCEPT ![t] = "dispatch"]
            /\ UNCHANGED rs
       ELSE /\ Return(t, v)
            /\ UNCHANGED newPos
    /\ ifTrade' = TRUE
    /\ fx' = [fx EXCEPT ![t] = @ \cup {"flag"}]
    /\ UNCHANGED ledger

\* The validation and computation step ends with outcome v: go on to the
\* dispatch with the new position, or return the error / raise; nothing is
\* written on either path
Validated(t, v) ==
    /\ IF v.kind = "ok"
       THEN /\ newPos' = [newPos EXCEPT ![t] = v.pos]
            /\ pc' = [pc EXCEPT ![t] = "dispatch"]
            /\ UNCHANGED rs
       ELSE /\ Return(t, v)
            /\ UNCHANGED newPos
    /\ UNCHANGED <<ledger, ifTrade, fx>>

\* buy: price lookup, cash check, new position
BuyCompute(t) ==
    /\ pc[t] = "compute"
    /\ op[t] = "buy"
    /\ Validated(t, BuyValidate(cur[t], tdate[t], sym[t], amt[t]))
    /\ UNCHANGED <<readVars, sendVars, gasVars, tx, useBlockchain, signature, today, storePos, lockHolder,
                   calls, op, sym, amt, tdate, cur, curId>>

\* sell: price lookup, position checks, T+1 scan of the ledger, new position
SellCompute(t) ==
    /\ pc[t] = "compute"
    /\ op[t] = "sell"
    /\ Validated(t, SellValidate(cur[t], tdate[t], sym[t], amt[t],
                                 TodayBuyAmount(ledger, sym[t], tdate[t])))
    /\ UNCHANGED <<readVars, sendVars, gasVars, tx, useBlockchain, signature, today, storePos, lockHolder,
                   calls, op, sym, amt, tdate, cur, curId>>

\* Mutant of LedgerAppend: the record is written in both modes
LedgerAppendAnyMode(t) ==
    /\ pc[t] = "dispatch"
    /\ ledger' = Append(ledger, ActionRecord(tdate[t], curId[t], op[t], sym[t],
                                             amt[t], newPos[t]))
    /\ fx' = [fx EXCEPT ![t] = @ \cup {"append"}]
    /\ pc' = [pc EXCEPT ![t] = "record"]
    /\ UNCHANGED <<readVars, sendVars, gasVars, tx, useBlockchain, signature, today, storePos, ifTrade,
                   lockHolder, calls, op, sym, amt, tdate, cur, curId, newPos, rs>>

\* File mode: append the ActionRecord to position.jsonl
LedgerAppend(t) ==
    /\ pc[t] = "dispatch"
    /\ ~useBlockchain
    /\ ledger' = Append(ledger, ActionRecord(tdate[t], curId[t], op[t], sym[t],
                                             amt[t], newPos[t]))
    /\ fx' = [fx EXCEPT ![t] = @ \cup {"append"}]
    /\ pc' = [pc EXCEPT ![t] = "record"]
    /\ UNCHANGED <<readVars, sendVars, gasVars, tx, useBlockchain, signature, today, storePos, ifTrade,
                   lockHolder, calls, op, sym, amt, tdate, cur, curId, newPos, rs>>

\* Mutant of ChainSend: a submitted order is also written to position.jsonl
ChainSendRecorded(t) ==
    /\ pc[t] = "dispatch"
    /\ useBlockchain
    /\ \E wr \in {<<w, k, ChainSubmit(w, k, sym[t], stocks, env)>> :
                       w \in Wallets, k \in Keys, stocks \in StockAddresses,
                       env \in SendEnvs} :
          LET w == wr[1]
              k == wr[2]
              r == wr[3]
          IN
          /\ tx' = [tx EXCEPT ![t] =
                      IF r.sent
                      THEN OrderTransfer(op[t], w, k, sym[t], amt[t],
                                         OpenPrice(tdate[t], sym[t]))
                      ELSE NoTx]
          /\ fx' = [fx EXCEPT ![t] = @ \cup (IF r.sent THEN {"chain"} ELSE {})
                                        \cup (IF r.ok THEN {} ELSE {"chainfail"})]
          /\ ledger' = IF r.ok
                       THEN Append(ledger, ActionRecord(tdate[t], curId[t], op[t],
                                                        sym[t], amt[t], newPos[t]))
                       ELSE ledger
          /\ IF r.ok
             THEN /\ pc' = [pc EXCEPT ![t] = "record"]
                  /\ UNCHANGED rs
             ELSE Return(t, ChainError(r.cause, sym[t]))
    /\ UNCHANGED <<readVars, sendVars, gasVars, useBlockchain, signature, today, storePos, ifTrade,
                   lockHolder, calls, op, sym, amt, tdate, cur, curId, newPos>>

\* Blockchain mode: place the limit order through the chain client
ChainSend(t) ==
    /\ pc[t] = "dispatch"
    /\ useBlockchain
    /\ \E wr \in {<<w, k, ChainSubmit(w, k, sym[t], stocks, env)>> :
                       w \in Wallets, k \in Keys, stocks \in StockAddresses,
                       env \in SendEnvs} :
          LET w == wr[1]
              k == wr[2]
              r == wr[3]
          IN
          /\ tx' = [tx EXCEPT ![t] =
                      IF r.sent
                      THEN OrderTransfer(op[t], w, k, sym[t], amt[t],
                                         OpenPrice(tdate[t], sym[t]))
                      ELSE NoTx]
          /\ fx' = [fx EXCEPT ![t] = @ \cup (IF r.sent THEN {"chain"} ELSE {})
                                        \cup (IF r.ok THEN {} ELSE {"chainfail"})]
          /\ IF r.ok
             THEN /\ pc' = [pc EXCEPT ![t] = "record"]
                  /\ UNCHANGED rs
             ELSE Return(t, ChainError(r.cause, sym[t]))
    /\ UNCHANGED <<readVars, sendVars, gasVars, useBlockchain, signature, today, storePos, ledger, ifTrade,
                   lockHolder, calls, op, sym, amt, tdate, cur, curId, newPos>>

\* Mutant of Record: the flag is written in ledger mode only
RecordFlagLedgerOnly(t) ==
    /\ pc[t] = "record"
    /\ ifTrade' = (ifTrade \/ ~useBlockchain)
    /\ fx' = [fx EXCEPT ![t] = @ \cup {"flag"}]
    /\ Return(t, [kind |-> "position", pos |-> newPos[t]])
    /\ UNCHANGED <<readVars, sendVars, gasVars, tx, useBlockchain, signature, today, storePos, ledger,
                   lockHolder, calls, op, sym, amt, tdate, cur, curId, newPos>>

\* Step 7: write_config_value("IF_TRADE", True); return new_position
Record(t) ==
    /\ pc[t] = "record"
    /\ ifTrade' = TRUE
    /\ fx' = [fx EXCEPT ![t] = @ \cup {"flag"}]
    /\ Return(t, [kind |-> "position", pos |-> newPos[t]])
    /\ UNCHANGED <<readVars, sendVars, gasVars, tx, useBlockchain, signature, today, storePos, ledger,
                   lockHolder, calls, op, sym, amt, tdate, cur, curId, newPos>>

\* The driver moves TODAY_DATE to the next trading day
NextDay ==
    /\ \A t \in Tasks : pc[t] = "idle"
    /\ today < MaxDate
    /\ today' = today + 1
    /\ UNCHANGED <<readVars, sendVars, gasVars, tx, useBlockchain, signature, storePos, ledger, ifTrade,
                   lockHolder, calls, pc, op, sym, amt, tdate, cur, curId,
                   newPos, rs, fx>>

\* A task starts a call
Start(t) ==
    \E o \in {"buy", "sell"}, sa \in Orders : Call(t, o, sa[1], sa[2])

\* A task takes the next step of its call
Step(t) ==
    \/ Acquire(t)
    \/ BuyRead(t)
    \/ SellRead(t)
    \/ BuyCompute(t)
    \/ SellCompute(t)
    \/ LedgerAppend(t)
    \/ ChainSend(t)
    \/ Record(t)

\* Calls run concurrently, each on its own task
Next ==
    \/ \E t \in Tasks : calls < MaxCalls /\ Start(t)
    \/ \E t \in Tasks : Step(t)
    \/ NextDay

Spec == Init /\ [][Next]_vars

\* Every task with a step to take is scheduled eventually
FairSpec == Spec /\ \A t \in Tasks : WF_vars(Step(t))

\* Calls run one after another, all on the same task
SeqNext ==
    \/ calls < MaxSeqCalls /\ Start("t1")
    \/ Step("t1")
    \/ NextDay

SeqSpec == Init /\ [][SeqNext]_vars

\* Mutant of Latest: the scan may keep another of the tied records each time
LatestAnyTied ==
    /\ \E r \in LatestPosition(ledger, useBlockchain, storePos) :
          replay' = [at |-> Len(ledger), position |-> r[1], lastId |-> r[2]]
    /\ UNCHANGED <<tradeVars, gasVars, sendVars, scanKeeps>>

\* get_latest_position(today_date, signature) called once more, outside any
\* order
Latest ==
    /\ LET r == LatestPositionBy(scanKeeps, ledger, useBlockchain, storePos) IN
          replay' = [at |-> Len(ledger), position |-> r[1], lastId |-> r[2]]
    /\ UNCHANGED <<tradeVars, gasVars, sendVars, scanKeeps>>

\* Orders the replayed reads run next to
ReadOrders == {<<"buy", US, 100>>, <<"sell", US, 100>>}

ReadInit ==
    /\ EngineStart
    /\ ClientInit("ARBITRUM")
    /\ signature = "agent"
    /\ scanKeeps \in ScanKeeps
    /\ replay = NoReplay

\* Concurrent orders of one agent, and reads of its latest position
ReadNext ==
    \/ \E t \in Tasks, o \in ReadOrders :
          calls < MaxCalls /\ Call(t, o[1], o[2], o[3])
    \/ \E t \in Tasks : Step(t)
    \/ Latest

ReadSpec == ReadInit /\ [][ReadNext]_vars

-----------------------------------------------------------------------------
(* Gas pricing cache of one EVMClient (agent_tools/blockchain/evm.py) *)

MAX_RETRIES == 5
COOLDOWN == 10          \* seconds
GasCacheTimeout == 15   \* self._gas_cache_timeout

MaxTime == 56           \* the clock stops here
MaxGasCalls == 3        \* get_gas_pricing_data calls started in a run

\* Number of the chain's latest block at a time: one block per time unit, so
\* that the block number of a snapshot dates its data
LatestBlockNumber(time) == time

\* gas_data as built from the latest block; "timestamp" is current_time
\* base_fee of a block without baseFeePerGas (None)
NoBaseFee == -1

\* w3.eth.get_block('latest'): the chain's head at the given time, with or
\* without a base fee
LatestBlock(time, hasBaseFee) ==
    [number |-> LatestBlockNumber(time),
     baseFeePerGas |-> IF hasBaseFee THEN 7 + time ELSE NoBaseFee]

\* w3.eth.max_priority_fee and w3.eth.gas_price at the given time
MaxPriorityFee(time) == 2 + (time % 3)
GasPrice(time) == 5 + time

\* The gas_data dictionary built from the latest block
GasData(latest_block, priority_fee, gas_price, time) ==
    LET base_fee == latest_block.baseFeePerGas IN
    IF base_fee # NoBaseFee
    THEN [block_number |-> latest_block.number, base_fee |-> base_fee,
          use_eip1559 |-> base_fee # NoBaseFee, timestamp |-> time,
          priority_fee |-> priority_fee,
          max_fee_per_gas |-> base_fee * 2 + priority_fee,
          max_priority_fee_per_gas |-> priority_fee]
    ELSE [block_number |-> latest_block.number, base_fee |-> base_fee,
          use_eip1559 |-> base_fee # NoBaseFee, timestamp |-> time,
          gas_price |-> gas_price]

\* Mutant of CacheValid: a snapshot of exactly the timeout's age is reused
CacheValidInclusive(cache, cacheTime, time) ==
    cache # NoSnapshot /\ time - cacheTime <= GasCacheTimeout

\* The cached value is still valid at current_time = time
CacheValid(cache, cacheTime, time) ==
    cache # NoSnapshot /\ time - cacheTime < GasCacheTimeout

\* What a finished call leaves in gasResult: "prior" is the cache the call
\* found, "start"/"end" the times of its first and last statement
GasReturn(kind, snap, attempts, start) ==
    [kind |-> kind, snap |-> snap, attempts |-> attempts,
     prior |-> gasPriceCache, start |-> start, end |-> now]

\* get_gas_pricing_data up to the loop: current_time, cache check
GetGasPricingData ==
    /\ gpc = "idle"
    /\ gasCalls' = gasCalls + 1
    /\ currentTime' = now
    /\ attempt' = 0
    /\ IF CacheValid(gasPriceCache, gasPriceCacheTime, now)
       THEN /\ gasResult' = GasReturn("snapshot", gasPriceCache, 0, now)
            /\ gpc' = "idle"
       ELSE /\ gasResult' = NoResult
            /\ gpc' = "fetch"
    /\ UNCHANGED <<readVars, co, sendVars, tradeVars, now, gasPriceCache, gasPriceCacheTime, wakeAt>>

\* An attempt succeeds: the cache is replaced and stamped with current_time
\* (a fetch attempt takes no time in the model)
FetchSucceeds ==
    /\ gpc = "fetch"
    /\ \E eip1559 \in BOOLEAN :
          LET g == GasData(LatestBlock(now, eip1559), MaxPriorityFee(now),
                           GasPrice(now), currentTime) IN
          /\ gasPriceCache' = g
          /\ gasPriceCacheTime' = currentTime
          /\ gasResult' = GasReturn("snapshot", g, attempt + 1, currentTime)
    /\ gpc' = "idle"
    /\ UNCHANGED <<readVars, co, sendVars, tradeVars, now, attempt, currentTime, wakeAt, gasCalls>>

\* Mutant of FetchFails: one more attempt is made before giving up
FetchFailsOneMore ==
    /\ gpc = "fetch"
    /\ IF attempt < MAX_RETRIES
       THEN /\ gpc' = "sleep"
            /\ wakeAt' = now + COOLDOWN
            /\ UNCHANGED gasResult
       ELSE /\ gpc' = "idle"
            /\ gasResult' = GasReturn("raised", NoSnapshot, attempt + 1, currentTime)
            /\ UNCHANGED wakeAt
    /\ UNCHANGED <<readVars, co, sendVars, tradeVars, now, gasPriceCache, gasPriceCacheTime, attempt,
                   currentTime, gasCalls>>

\* An attempt fails: sleep COOLDOWN, or re-raise after the last attempt
FetchFails ==
    /\ gpc = "fetch"
    /\ IF attempt < MAX_RETRIES - 1
       THEN /\ gpc' = "sleep"
            /\ wakeAt' = now + COOLDOWN
            /\ UNCHANGED gasResult
       ELSE /\ gpc' = "idle"
            /\ gasResult' = GasReturn("raised", NoSnapshot, attempt + 1, currentTime)
            /\ UNCHANGED wakeAt
    /\ UNCHANGED <<readVars, co, sendVars, tradeVars, now, gasPriceCache, gasPriceCacheTime, attempt,
                   currentTime, gasCalls>>

\* asyncio.sleep(COOLDOWN) is over: next iteration of the loop
Wake ==
    /\ gpc = "sleep"
    /\ now >= wakeAt
    /\ attempt' = attempt + 1
    /\ gpc' = "fetch"
    /\ UNCHANGED <<readVars, co, sendVars, tradeVars, now, gasPriceCache, gasPriceCacheTime,
                   currentTime, wakeAt, gasCalls, gasResult>>

\* Time passes, between calls and during a sleep up to its end
Tick ==
    /\ now < MaxTime
    /\ gpc # "fetch"
    /\ gpc = "sleep" => now < wakeAt
    /\ now' = now + 1
    /\ UNCHANGED <<readVars, co, sendVars, tradeVars, gasPriceCache, gasPriceCacheTime, gpc, attempt,
                   currentTime, wakeAt, gasCalls, gasResult>>

\* A chain-mode process: only the client's gas pricing is followed
GasInit ==
    /\ Init
    /\ useBlockchain
    /\ signature = "agent"
    /\ storePos = [k \in {"CASH"} |-> 20000]

\* Calls start while the clock leaves room for all their cooldowns
GasNext ==
    \/ /\ gasCalls < MaxGasCalls
       /\ now + (MAX_RETRIES - 1) * COOLDOWN <= MaxTime
       /\ GetGasPricingData
    \/ FetchSucceeds
    \/ FetchFails
    \/ Wake
    \/ Tick

GasSpec == GasInit /\ [][GasNext]_vars

\* The event loop runs the coroutine and the clock advances
GasFairSpec ==
    GasSpec /\ WF_vars(FetchSucceeds \/ FetchFails) /\ WF_vars(Wake) /\ WF_vars(Tick)

-----------------------------------------------------------------------------
(* The gas pricing cache shared by the coroutines of one event loop: a     *)
(* coroutine runs from one await to the next without interruption, and     *)
(* asyncio.sleep(COOLDOWN) is the only await of get_gas_pricing_data       *)

MaxSharedTime == 16
MaxSharedCalls == 2

\* No coroutine is between two awaits: the event loop can pick one
LoopFree == \A c \in Callers : co[c].pc # "fetch"

\* The running coroutine is c: no other coroutine is between two awaits
Running(c) == \A d \in Callers \ {c} : co[d].pc # "fetch"

\* get_gas_pricing_data up to the loop: current_time, the cache check
CoCall(c) ==
    /\ LoopFree
    /\ co[c].pc = "idle"
    /\ co[c].calls < MaxSharedCalls
    /\ co' = [co EXCEPT ![c] =
                 [pc |-> IF CacheValid(gasPriceCache, gasPriceCacheTime, now)
                         THEN "idle" ELSE "fetch",
                  attempt |-> 0, current_time |-> now, wakeAt |-> 0,
                  seen |-> gasPriceCache, seenTime |-> gasPriceCacheTime,
                  calls |-> @.calls + 1]]
    /\ UNCHANGED <<readVars, sendVars, tradeVars, now, gasPriceCache, gasPriceCacheTime, gpc,
                   attempt, currentTime, wakeAt, gasCalls, gasResult>>

\* Mutant of CoFetchSucceeds: the stamp is written by the coroutine's next
\* run, after an await
CoFetchSucceedsStampLater(c) ==
    /\ co[c].pc = "fetch"
    /\ Running(c)
    /\ \E eip1559 \in BOOLEAN :
          gasPriceCache' = GasData(LatestBlock(now, eip1559), MaxPriorityFee(now),
                                   GasPrice(now), co[c].current_time)
    /\ co' = [co EXCEPT ![c].pc = "idle"]
    /\ UNCHANGED <<readVars, sendVars, tradeVars, now, gasPriceCacheTime, gpc, attempt,
                   currentTime, wakeAt, gasCalls, gasResult>>

\* An attempt succeeds: gas_data is built, then the cache and its stamp are
\* assigned, with no await in between
CoFetchSucceeds(c) ==
    /\ co[c].pc = "fetch"
    /\ Running(c)
    /\ \E eip1559 \in BOOLEAN :
          gasPriceCache' = GasData(LatestBlock(now, eip1559), MaxPriorityFee(now),
                                   GasPrice(now), co[c].current_time)
    /\ gasPriceCacheTime' = co[c].current_time
    /\ co' = [co EXCEPT ![c].pc = "idle"]
    /\ UNCHANGED <<readVars, sendVars, tradeVars, now, gpc, attempt, currentTime, wakeAt,
                   gasCalls, gasResult>>

\* An attempt fails: await asyncio.sleep(COOLDOWN), or re-raise after the
\* last attempt
CoFetchFails(c) ==
    /\ co[c].pc = "fetch"
    /\ Running(c)
    /\ co' = [co EXCEPT ![c] =
                 IF @.attempt < MAX_RETRIES - 1
                 THEN [@ EXCEPT !.pc = "sleep", !.wakeAt = now + COOLDOWN]
                 ELSE [@ EXCEPT !.pc = "idle"]]
    /\ UNCHANGED <<readVars, sendVars, tradeVars, now, gasPriceCache, gasPriceCacheTime, gpc,
                   attempt, currentTime, wakeAt, gasCalls, gasResult>>

\* The sleep is over and the event loop resumes the coroutine
CoWake(c) ==
    /\ LoopFree
    /\ co[c].pc = "sleep"
    /\ now >= co[c].wakeAt
    /\ co' = [co EXCEPT ![c].pc = "fetch", ![c].attempt = @ + 1]
    /\ UNCHANGED <<readVars, sendVars, tradeVars, now, gasPriceCache, gasPriceCacheTime, gpc,
                   attempt, currentTime, wakeAt, gasCalls, gasResult>>

\* Time passes while no coroutine runs, up to the end of the next sleep
CoTick ==
    /\ now < MaxSharedTime
    /\ LoopFree
    /\ \A c \in Callers : co[c].pc = "sleep" => now < co[c].wakeAt
    /\ now' = now + 1
    /\ UNCHANGED <<readVars, sendVars, tradeVars, gasPriceCache, gasPriceCacheTime, gpc,
                   attempt, currentTime, wakeAt, gasCalls, gasResult, co>>

SharedNext ==
    \/ \E c \in Callers :
          \/ CoCall(c)
          \/ CoFetchSucceeds(c)
          \/ CoFetchFails(c)
          \/ CoWake(c)
    \/ CoTick

SharedSpec == GasInit /\ [][SharedNext]_vars

-----------------------------------------------------------------------------
(* Token transfer with memo of one EVMClient (agent_tools/blockchain/evm.py) *)

MaxSendCalls == 2
MaxSendTime == 16

\* Private keys handed to the client: two valid keys, one that is no key,
\* and the empty string
SendKeys == {"keyA", "keyB", "badkey"}
SignKeys == SendKeys \cup {""}

\* Account.from_key accepts the key
ValidKey(key) == key \in {"keyA", "keyB"}

\* Account.from_key(key).address, in checksum spelling, as characters
KeyAddress(key) ==
    IF key = "keyA" THEN <<"0", "x", "A", "b">> ELSE <<"0", "x", "C", "d">>

\* Spellings of a sender address a transaction can declare
FromAddresses ==
    {<<"0", "x", "A", "b">>, <<"0", "x", "a", "b">>, <<"0", "x", "A", "B">>,
     <<"0", "x", "C", "d">>}

\* str.lower()
LowerChar(c) ==
    CASE c = "A" -> "a" [] c = "B" -> "b" [] c = "C" -> "c" [] c = "D" -> "d"
      [] OTHER -> c

Lower(str) == [i \in DOMAIN str |-> LowerChar(str[i])]

\* Recipients: one address to_checksum_address accepts and one it rejects
Recipients == {"0xTrading", "nonsense"}
ValidAddress(a) == a = "0xTrading"

\* Memo texts, as sequences of characters; "U+00E9" is one non-ASCII
\* character
MemoTexts == {<< >>, <<"{", "a", "}">>, <<"a", "U+00E9">>}

\* str.encode('utf-8') of one character
Utf8Char(c) ==
    CASE c = "{" -> <<123>> [] c = "}" -> <<125>> [] c = "a" -> <<97>>
      [] c = "U+00E9" -> <<195, 169>>

RECURSIVE Utf8(_)
Utf8(text) ==
    IF text = << >> THEN << >> ELSE Utf8Char(Head(text)) \o Utf8(Tail(text))

HexDigits ==
    <<"0", "1", "2", "3", "4", "5", "6", "7", "8", "9", "a", "b", "c", "d", "e", "f">>

\* bytes.hex(): two lower-case hex digits per byte, no prefix
RECURSIVE BytesHex(_)
BytesHex(bytes) ==
    IF bytes = << >> THEN << >>
    ELSE <<HexDigits[(Head(bytes) \div 16) + 1], HexDigits[(Head(bytes) % 16) + 1]>>
         \o BytesHex(Tail(bytes))

\* contract.functions.transfer(recipient, amount): selector and the two
\* argument words, as hex text without prefix (each word one element)
TransferCallData(recipient, amount) ==
    <<"a", "9", "0", "5", "9", "c", "b", "b", recipient, amount>>

\* Mutant of AppendMemo: the memo bytes are appended as text, not as hex
AppendMemoRaw(isBytes, callData, memo_text) ==
    (IF isBytes THEN callData ELSE <<"0x">> \o callData) \o memo_text

\* transaction['data'] after the memo is appended: build_transaction left
\* the call data as bytes (then .hex() drops the prefix) or as 0x-text
AppendMemo(isBytes, callData, memo_text) ==
    LET memo_data == Utf8(memo_text)
        memo_encoded == BytesHex(memo_data)
    IN  IF isBytes THEN callData \o memo_encoded
        ELSE (<<"0x">> \o callData) \o memo_encoded

\* Fee fields build_transaction may have filled in by itself
BuiltFees ==
    {[k \in {} |-> 0], [gasPrice |-> 4],
     [maxFeePerGas |-> 30, maxPriorityFeePerGas |-> 1]}

Del(p, k) == [x \in (DOMAIN p) \ {k} |-> p[x]]

\* Mutant of BalanceGuard: no network is exempt
BalanceGuardEveryNetwork(chain, balance) == balance = 0

\* balance == 0 and self.blockchain != Blockchain.BNB
BalanceGuard(chain, balance) == balance = 0 /\ chain # "BNB"

\* Largest power of two below n (n > 1)
RECURSIVE Pow2Below(_, _)
Pow2Below(n, p) == IF p * 2 < n THEN Pow2Below(n, p * 2) ELSE p

\* int(estimated_gas * 1.4) in double precision: the double nearest to 1.4
\* lies below it by 0.4 * 2^-52, so where 1.4 * est is an integer N the
\* product rounds to the double below N when that error exceeds half a unit
\* in the last place
TruncTimes1_4(est) ==
    LET N == (est * 14) \div 10 IN
    IF est > 0 /\ est % 5 = 0 /\ 4 * est > 5 * Pow2Below(N, 1)
    THEN N - 1
    ELSE (est * 140) \div 100

EstimateFails == -1
Estimates == {21000, 60000}

\* Mutant of GasLimit: every network uses the Ethereum buffer and fallback
GasLimitOneBuffer(chain, est) ==
    IF est # EstimateFails THEN (est * 125) \div 100 ELSE 100000

\* gas_limit from w3.eth.estimate_gas, or the fallback when it raised
\* (products by 1.35, 1.2 and 1.25 are exact in double precision here)
GasLimit(chain, est) ==
    IF est # EstimateFails
    THEN CASE chain = "ARBITRUM" -> TruncTimes1_4(est)
           [] chain = "BASE" -> (est * 135) \div 100
           [] chain = "BNB" -> (est * 120) \div 100
           [] OTHER -> (est * 125) \div 100
    ELSE IF chain \in {"ARBITRUM", "BASE"} THEN 150000 ELSE 100000

\* Gas pricing written into the transaction
FeeFields(txn, gas_data) ==
    IF gas_data.use_eip1559
    THEN Del(Put(Put(Put(txn, "maxFeePerGas", gas_data.max_fee_per_gas),
                     "maxPriorityFeePerGas", gas_data.max_priority_fee_per_gas),
                 "type", 2), "gasPrice")
    ELSE Put(txn, "gasPrice", gas_data.gas_price)

\* Pieces of an exception's text: a literal of the source, an interpolated
\* address, private key or integer, and the text of an exception raised
\* inside web3 or eth_account, known by the call that raised it
Lit(text) == <<"lit", text>>
AddressText(address) == <<"address">> \o address
KeyText(private_key) == <<"key", private_key>>
IntText(n) == <<"int">> \o Digits(n)
LibraryText(cause) == <<"library", cause>>

\* str(e) of the exception a step raises: the signer's address mismatch, the
\* balance guard, or an exception of a library call
RaisedText(cause, private_key, from) ==
    CASE cause = "address_mismatch" ->
            <<Lit("Private key address "), AddressText(KeyAddress(private_key)),
              Lit(" does not match transaction sender "), AddressText(from)>>
      [] cause = "insufficient_gas_balance" ->
            <<Lit("Insufficient ETH balance for gas fees: "), IntText(0)>>
      [] OTHER -> <<LibraryText(cause)>>

\* additional_info: the guidance chosen by the words found in str(e).lower();
\* for a library's exception it depends on that library's text
AdditionalInfo(cause) ==
    CASE cause = "address_mismatch" -> Lit("")
      [] cause = "insufficient_gas_balance" ->
            Lit(" Try increasing the gas limit for L2 networks.")
      [] OTHER -> <<"guidance", cause>>

\* Mutant of SendErrorText: the arguments of the call are echoed
SendErrorTextEchoesKey(cause, e, private_key) ==
    <<Lit("Error sending token transaction with memo: ")>> \o e
        \o <<Lit("."), AdditionalInfo(cause),
             Lit(" Memo is required for this transaction."),
             KeyText(private_key)>>

\* Text of the Exception send_token_with_memo raises for the exception e;
\* private_key is in scope and is not interpolated
SendErrorText(cause, e, private_key) ==
    <<Lit("Error sending token transaction with memo: ")>> \o e
        \o <<Lit("."), AdditionalInfo(cause),
             Lit(" Memo is required for this transaction.")>>

\* Text of the "error" field buy and sell return when the blockchain branch
\* raises: the two ValueErrors of the branch, or the client's Exception
ChainErrorText(cause, symbol, e) ==
    <<Lit("Blockchain transaction failed: ")>> \o
        (CASE cause = "wallet_or_key_not_set" ->
                 <<Lit("ARB_WALLET_ADDRESS and ARB_PRIVATE_KEY must be set for blockchain trading")>>
           [] cause = "token_address_not_found" ->
                 <<Lit("Stock token address not found for "), <<"symbol", symbol>>>>
           [] OTHER -> e)

\* Mutant of SignTransaction: the addresses are compared as spelled
SignTransactionCaseSensitive(txn, private_key, libOk) ==
    IF private_key = "" THEN [kind |-> "none"]
    ELSE IF ~ValidKey(private_key)
    THEN [kind |-> "raised", exc |-> "ValueError", cause |-> "from_key",
          text |-> RaisedText("from_key", private_key, txn["from"])]
    ELSE IF KeyAddress(private_key) # txn["from"]
    THEN [kind |-> "raised", exc |-> "ValueError", cause |-> "address_mismatch",
          text |-> RaisedText("address_mismatch", private_key, txn["from"])]
    ELSE IF ~libOk
    THEN [kind |-> "raised", exc |-> "TypeError", cause |-> "sign_transaction",
          text |-> RaisedText("sign_transaction", private_key, txn["from"])]
    ELSE [kind |-> "raw", transaction |-> txn, signer |-> KeyAddress(private_key)]

\* _sign_transaction: None without a key; otherwise derive the address,
\* compare it with transaction['from'] in lower case, sign (the signing
\* library accepts the transaction or not) and return the raw bytes
SignTransaction(txn, private_key, libOk) ==
    IF private_key = "" THEN [kind |-> "none"]
    ELSE IF ~ValidKey(private_key)
    THEN [kind |-> "raised", exc |-> "ValueError", cause |-> "from_key",
          text |-> RaisedText("from_key", private_key, txn["from"])]
    ELSE IF Lower(KeyAddress(private_key)) # Lower(txn["from"])
    THEN [kind |-> "raised", exc |-> "ValueError", cause |-> "address_mismatch",
          text |-> RaisedText("address_mismatch", private_key, txn["from"])]
    ELSE IF ~libOk
    THEN [kind |-> "raised", exc |-> "TypeError", cause |-> "sign_transaction",
          text |-> RaisedText("sign_transaction", private_key, txn["from"])]
    ELSE [kind |-> "raw", transaction |-> txn, signer |-> KeyAddress(private_key)]

\* w3.eth.get_transaction_count(address, "pending")
PendingCount(address) ==
    Cardinality({i \in DOMAIN mempool : mempool[i]["from"] = address})

\* The except clause of send_token_with_memo: every failure is re-raised as
\* Exception
SendRaiseFor(s, cause, private_key) ==
    /\ sres' = [sres EXCEPT ![s] =
          [kind |-> "raised", exc |-> "Exception", cause |-> cause,
           text |-> SendErrorText(cause,
                       RaisedText(cause, private_key,
                                  IF cause = "address_mismatch"
                                  THEN transaction[s]["from"] ELSE << >>),
                       private_key)]]
    /\ spc' = [spc EXCEPT ![s] = "idle"]

\* The except clause in a call under way
SendRaise(s, cause) == SendRaiseFor(s, cause, sarg[s].private_key)

\* Mutant of AfterStep: the transaction is broadcast before it is signed
AfterStepBroadcastFirst(step) ==
    CASE step = "call" -> "account" [] step = "account" -> "gas"
      [] step = "gas" -> "build" [] step = "build" -> "estimate"
      [] step = "estimate" -> "broadcast" [] step = "broadcast" -> "sign"
      [] step = "sign" -> "idle"

\* The statement order of send_token_with_memo
AfterStep(step) ==
    CASE step = "call" -> "account" [] step = "account" -> "gas"
      [] step = "gas" -> "build" [] step = "build" -> "estimate"
      [] step = "estimate" -> "sign" [] step = "sign" -> "broadcast"
      [] step = "broadcast" -> "idle"

\* send_token_with_memo up to the account fetch: Account.from_key,
\* to_checksum_address
SendCall(s, key, recipient, memo) ==
    /\ spc[s] = "idle"
    /\ sendCalls' = sendCalls + 1
    /\ sarg' = [sarg EXCEPT ![s] = [private_key |-> key,
                                   recipient_address |-> recipient,
                                   memo_text |-> memo]]
    /\ accountData' = [accountData EXCEPT ![s] = NoAccount]
    /\ gasData' = [gasData EXCEPT ![s] = NoGasData]
    /\ transaction' = [transaction EXCEPT ![s] = NoTx]
    /\ sfx' = [sfx EXCEPT ![s] = << >>]
    /\ IF ~ValidKey(key) THEN SendRaiseFor(s, "from_key", key)
       ELSE IF ~ValidAddress(recipient)
       THEN SendRaiseFor(s, "to_checksum_address", key)
       ELSE /\ spc' = [spc EXCEPT ![s] = AfterStep("call")]
            /\ sres' = [sres EXCEPT ![s] = NoResult]
    /\ UNCHANGED <<readVars, tradeVars, gasVars, blockchain, mempool, signed>>

\* Mutant of SendAccount: a failed fetch is tried again up to MAX_RETRIES
SendAccountRetried(s) ==
    /\ spc[s] = "account"
    /\ sfx' = [sfx EXCEPT ![s] = Append(@, "account")]
    /\ \/ \E balance \in {0, 1} :
             /\ accountData' = [accountData EXCEPT ![s] =
                   [nonce |-> PendingCount(KeyAddress(sarg[s].private_key)),
                    balance |-> balance,
                    address |-> KeyAddress(sarg[s].private_key)]]
             /\ spc' = [spc EXCEPT ![s] = AfterStep("account")]
             /\ UNCHANGED sres
       \/ /\ IF Len(sfx[s]) + 1 < MAX_RETRIES
             THEN UNCHANGED <<spc, sres>>
             ELSE SendRaise(s, "account_data")
          /\ UNCHANGED accountData
    /\ UNCHANGED <<readVars, tradeVars, gasVars, blockchain, mempool, sendCalls, sarg,
                   gasData, transaction, signed>>

\* get_account_data: nonce (pending) and balance, fetched from the node; a
\* failure is logged and raised again
SendAccount(s) ==
    /\ spc[s] = "account"
    /\ sfx' = [sfx EXCEPT ![s] = Append(@, "account")]
    /\ \/ \E balance \in {0, 1} :
             /\ accountData' = [accountData EXCEPT ![s] =
                   [nonce |-> PendingCount(KeyAddress(sarg[s].private_key)),
                    balance |-> balance,
                    address |-> KeyAddress(sarg[s].private_key)]]
             /\ spc' = [spc EXCEPT ![s] = AfterStep("account")]
             /\ UNCHANGED sres
       \/ /\ SendRaise(s, "account_data")
          /\ UNCHANGED accountData
    /\ UNCHANGED <<readVars, tradeVars, gasVars, blockchain, mempool, sendCalls, sarg,
                   gasData, transaction, signed>>

\* get_gas_pricing_data as the send sees it, its attempts and cooldowns
\* taken as one step: the cached snapshot, a fetched one, or the failure
SendGas(s) ==
    /\ spc[s] = "gas"
    /\ sfx' = [sfx EXCEPT ![s] = Append(@, "gas")]
    /\ IF CacheValid(gasPriceCache, gasPriceCacheTime, now)
       THEN /\ gasData' = [gasData EXCEPT ![s] =
                              [cached |-> TRUE, snap |-> gasPriceCache]]
            /\ spc' = [spc EXCEPT ![s] = AfterStep("gas")]
            /\ UNCHANGED <<gasPriceCache, gasPriceCacheTime, sres>>
       ELSE \/ \E eip1559 \in BOOLEAN :
                  LET g == GasData(LatestBlock(now, eip1559), MaxPriorityFee(now),
                                   GasPrice(now), now) IN
                  /\ gasPriceCache' = g
                  /\ gasPriceCacheTime' = now
                  /\ gasData' = [gasData EXCEPT ![s] =
                                    [cached |-> FALSE, snap |-> g]]
                  /\ spc' = [spc EXCEPT ![s] = AfterStep("gas")]
                  /\ UNCHANGED sres
            \/ /\ SendRaise(s, "gas_pricing")
               /\ UNCHANGED <<gasPriceCache, gasPriceCacheTime, gasData>>
    /\ UNCHANGED <<readVars, tradeVars, now, gpc, attempt, currentTime, wakeAt, gasCalls,
                   gasResult, co, blockchain, mempool, sendCalls, sarg, accountData,
                   transaction, signed>>

\* Mutant of SendBuild: the transaction declares the address of one fixed
\* key as its sender
SendBuildFixedSender(s) ==
    /\ spc[s] = "build"
    /\ IF BalanceGuard(blockchain, accountData[s].balance)
       THEN /\ SendRaise(s, "insufficient_gas_balance")
            /\ UNCHANGED <<transaction, sfx>>
       ELSE /\ sfx' = [sfx EXCEPT ![s] = Append(@, "build")]
            /\ \/ \E fees \in BuiltFees, isBytes \in BOOLEAN :
                     /\ transaction' = [transaction EXCEPT ![s] =
                           [chainId |-> blockchain,
                            from |-> KeyAddress("keyA"),
                            nonce |-> accountData[s].nonce,
                            to |-> "token",
                            value |-> 0,
                            data |-> AppendMemo(isBytes,
                                       TransferCallData(sarg[s].recipient_address,
                                                        "amount"),
                                       sarg[s].memo_text)] @@ fees]
                     /\ spc' = [spc EXCEPT ![s] = AfterStep("build")]
                     /\ UNCHANGED sres
               \/ /\ SendRaise(s, "build_transaction")
                  /\ UNCHANGED transaction
    /\ UNCHANGED <<readVars, tradeVars, gasVars, blockchain, mempool, sendCalls, sarg,
                   accountData, gasData, signed>>

\* The balance guard, then build_transaction and the memo appended to data
SendBuild(s) ==
    /\ spc[s] = "build"
    /\ IF BalanceGuard(blockchain, accountData[s].balance)
       THEN /\ SendRaise(s, "insufficient_gas_balance")
            /\ UNCHANGED <<transaction, sfx>>
       ELSE /\ sfx' = [sfx EXCEPT ![s] = Append(@, "build")]
            /\ \/ \E fees \in BuiltFees, isBytes \in BOOLEAN :
                     /\ transaction' = [transaction EXCEPT ![s] =
                           [chainId |-> blockchain,
                            from |-> accountData[s].address,
                            nonce |-> accountData[s].nonce,
                            to |-> "token",
                            value |-> 0,
                            data |-> AppendMemo(isBytes,
                                       TransferCallData(sarg[s].recipient_address,
                                                        "amount"),
                                       sarg[s].memo_text)] @@ fees]
                     /\ spc' = [spc EXCEPT ![s] = AfterStep("build")]
                     /\ UNCHANGED sres
               \/ /\ SendRaise(s, "build_transaction")
                  /\ UNCHANGED transaction
    /\ UNCHANGED <<readVars, tradeVars, gasVars, blockchain, mempool, sendCalls, sarg,
                   accountData, gasData, signed>>

\* estimate_gas or the fallback, then the gas pricing fields
SendEstimate(s) ==
    /\ spc[s] = "estimate"
    /\ sfx' = [sfx EXCEPT ![s] = Append(@, "estimate")]
    /\ \E est \in Estimates \cup {EstimateFails} :
          transaction' = [transaction EXCEPT ![s] =
              FeeFields(Put(@, "gas", GasLimit(blockchain, est)), gasData[s].snap)]
    /\ spc' = [spc EXCEPT ![s] = AfterStep("estimate")]
    /\ UNCHANGED <<readVars, tradeVars, gasVars, blockchain, mempool, sendCalls, sarg,
                   accountData, gasData, sres, signed>>

\* self._sign_transaction(transaction, private_key)
SendSign(s) ==
    /\ spc[s] = "sign"
    /\ sfx' = [sfx EXCEPT ![s] = Append(@, "sign")]
    /\ \E libOk \in BOOLEAN :
          LET r == SignTransaction(transaction[s], sarg[s].private_key, libOk) IN
          IF r.kind = "raw"
          THEN /\ spc' = [spc EXCEPT ![s] = AfterStep("sign")]
               /\ UNCHANGED sres
          ELSE SendRaise(s, r.cause)
    /\ UNCHANGED <<readVars, tradeVars, gasVars, blockchain, mempool, sendCalls, sarg,
                   accountData, gasData, transaction, signed>>

\* w3.eth.send_raw_transaction: the node takes the transaction and the hash
\* is returned, or the call raises
SendBroadcast(s) ==
    /\ spc[s] = "broadcast"
    /\ sfx' = [sfx EXCEPT ![s] = Append(@, "broadcast")]
    /\ \/ /\ mempool' = Append(mempool, [from |-> transaction[s]["from"],
                                          nonce |-> transaction[s].nonce])
          /\ sres' = [sres EXCEPT ![s] = [kind |-> "hash",
                                          transaction |-> transaction[s]]]
          /\ spc' = [spc EXCEPT ![s] = AfterStep("broadcast")]
       \/ /\ SendRaise(s, "send_raw_transaction")
          /\ UNCHANGED mempool
    /\ UNCHANGED <<readVars, tradeVars, gasVars, blockchain, sendCalls, sarg, accountData,
                   gasData, transaction, signed>>

\* A direct call of _sign_transaction with a transaction that declares the
\* given sender
SignDirect(from, key, libOk) ==
    /\ signed' = [from |-> from, private_key |-> key, libOk |-> libOk,
                  result |-> SignTransaction([from |-> from, nonce |-> 0],
                                             key, libOk)]
    /\ UNCHANGED <<readVars, tradeVars, gasVars, blockchain, mempool, sendCalls, spc, sarg,
                   accountData, gasData, transaction, sfx, sres>>

\* Time passes between the calls of a sender: one unit less than the
\* cache timeout, or the whole timeout
SendWait(d) ==
    /\ now + d <= MaxSendTime
    /\ \A s \in Senders : spc[s] = "idle"
    /\ now' = now + d
    /\ UNCHANGED <<readVars, tradeVars, sendVars, gasPriceCache, gasPriceCacheTime, gpc,
                   attempt, currentTime, wakeAt, gasCalls, gasResult, co>>

SendStep(s) ==
    \/ SendAccount(s)
    \/ SendGas(s)
    \/ SendBuild(s)
    \/ SendEstimate(s)
    \/ SendSign(s)
    \/ SendBroadcast(s)

\* One client of any network, with a cold cache
SendInit ==
    /\ EngineInit
    /\ useBlockchain
    /\ signature = "agent"
    /\ storePos = [k \in {"CASH"} |-> 20000]
    /\ \E chain \in Blockchains : ClientInit(chain)

\* The calls of one sender, one after another
SendNext ==
    \/ /\ sendCalls < MaxSendCalls
       /\ \E key \in SendKeys, recipient \in Recipients, memo \in MemoTexts :
             SendCall("s1", key, recipient, memo)
    \/ SendStep("s1")
    \/ \E d \in {GasCacheTimeout - 1, GasCacheTimeout} : SendWait(d)

SendSpec == SendInit /\ [][SendNext]_vars

\* The signer applied to every declared sender and key
SignNext ==
    \E from \in FromAddresses, key \in SignKeys, libOk \in BOOLEAN :
        SignDirect(from, key, libOk)

SignSpec == SendInit /\ [][SignNext]_vars

MaxConcSends == 2   \* send_token_with_memo calls started on one event loop

\* The event loop can run sender s: every other call is not started, is
\* finished, or is suspended in the cooldown sleep of get_gas_pricing_data,
\* the only await of send_token_with_memo that yields
SendLoopFree(s) == \A o \in Senders \ {s} : spc[o] \in {"idle", "gas"}

\* Calls of send_token_with_memo that share the client and the event loop
ConcSendNext ==
    \/ /\ sendCalls < MaxConcSends
       /\ \E s \in Senders, key \in {"keyA", "keyB"} :
             SendLoopFree(s) /\ SendCall(s, key, "0xTrading", <<"{", "a", "}">>)
    \/ \E s \in Senders : SendLoopFree(s) /\ SendStep(s)

ConcSendSpec == SendInit /\ [][ConcSendNext]_vars

MaxKeyCalls == 1    \* send_token_with_memo calls next to the direct signer calls

\* The signer called directly, and sends of one sender with every key
KeyNext ==
    \/ \E from \in {<<"0", "x", "a", "b">>, <<"0", "x", "E", "f">>},
          key \in SignKeys, libOk \in BOOLEAN : SignDirect(from, key, libOk)
    \/ /\ sendCalls < MaxKeyCalls
       /\ \E key \in SendKeys, recipient \in Recipients :
             SendCall("s1", key, recipient, <<"{", "a", "}">>)
    \/ SendStep("s1")

KeySpec == SendInit /\ [][KeyNext]_vars

-----------------------------------------------------------------------------
(* Properties *)

IsErr(r, e) == r.kind = "error" /\ r.error = e

\* The task's last call has returned or raised
Finished(t) == pc[t] = "idle" /\ rs[t].kind # "none"

\* C1: under every interleaving of concurrent buy/sell calls in file mode the
\* ledger's ids are strictly increasing and gap-free, no two entries sharing
\* an id: each record's id is its predecessor's plus one.
C1_SerialIds ==
    \A i \in 1..Len(ledger) - 1 : ledger[i + 1].id = ledger[i].id + 1

\* C2: in ledger mode the calling task holds the position lock from the read
\* of the latest position through validation and computation until the
\* record is appended, in buy and in sell.
C2_LockHeldToAppend ==
    \A t \in Tasks :
        (~useBlockchain /\ pc[t] \in {"read", "compute", "dispatch"})
            => lockHolder = t

\* The order of the buy call was valid: positive quantity, price known, cash
\* sufficient
ValidBuy(t) ==
    /\ op[t] = "buy"
    /\ amt[t] > 0
    /\ PriceKnown(tdate[t], sym[t])
    /\ "CASH" \in DOMAIN cur[t]
    /\ cur[t]["CASH"] - OpenPrice(tdate[t], sym[t]) * amt[t] >= 0

\* C3: every valid buy order returns a position with
\* new.CASH = old.CASH - price*qty and new[symbol] = old.get(symbol, 0) + qty,
\* a symbol absent from the old position counting as 0, every other key
\* unchanged (a failed chain submission aside).
C3_BuyPosition ==
    \A t \in Tasks :
        (Finished(t) /\ ValidBuy(t)
            /\ ~IsErr(rs[t], "BlockchainTransactionFailed"))
        => /\ rs[t].kind = "position"
           /\ rs[t].pos =
                Put(Put(cur[t], "CASH",
                        cur[t]["CASH"] - OpenPrice(tdate[t], sym[t]) * amt[t]),
                    sym[t], Get(cur[t], sym[t], 0) + amt[t])

\* The position the store held before the ledger's i-th record was appended
StoreBefore(i) == IF i = 1 THEN storePos ELSE ledger[i - 1].positions

RECURSIVE Total(_, _, _, _)
\* Total amount of the first n ledger records with action a, symbol s, date d
Total(n, a, s, d) ==
    IF n = 0 THEN 0
    ELSE Total(n - 1, a, s, d)
         + (IF ledger[n].action = a /\ ledger[n].symbol = s /\ ledger[n].date = d
            THEN ledger[n].amount ELSE 0)

\* The order of the sell call was valid: price known, symbol held, held >=
\* qty, T+1 satisfied (and the lot size respected)
ValidSell(t) ==
    /\ op[t] = "sell"
    /\ ~(Market(sym[t]) = "cn" /\ amt[t] % 100 # 0)
    /\ PriceKnown(tdate[t], sym[t])
    /\ sym[t] \in DOMAIN cur[t]
    /\ cur[t][sym[t]] >= amt[t]
    /\ Market(sym[t]) = "cn" =>
         amt[t] <= cur[t][sym[t]]
                     - Max0(Total(Len(ledger), "buy", sym[t], tdate[t]))

\* C4: every valid sell order returns a position with
\* new.CASH = old.CASH + price*qty (a position without CASH counting as cash
\* 0) and new[symbol] = old[symbol] - qty, every other key unchanged, and the
\* position read from the store is still what the store holds for the time
\* before the order (a failed chain submission aside).
C4_SellPosition ==
    \A t \in Tasks :
        (Finished(t) /\ ValidSell(t)
            /\ ~IsErr(rs[t], "BlockchainTransactionFailed"))
        => /\ rs[t].kind = "position"
           /\ DOMAIN rs[t].pos = DOMAIN cur[t] \cup {"CASH"}
           /\ rs[t].pos["CASH"] =
                Get(cur[t], "CASH", 0) + OpenPrice(tdate[t], sym[t]) * amt[t]
           /\ rs[t].pos[sym[t]] = cur[t][sym[t]] - amt[t]
           /\ \A k \in DOMAIN cur[t] \ {"CASH", sym[t]} : rs[t].pos[k] = cur[t][k]
           /\ cur[t] = IF useBlockchain THEN storePos
                       ELSE StoreBefore(Len(ledger))

\* C4 witness: a sell of a positive quantity has returned its new position
C4_Witness ==
    \E t \in Tasks :
        /\ Finished(t) /\ op[t] = "sell" /\ amt[t] > 0
        /\ rs[t].kind = "position"
        /\ "CASH" \in DOMAIN cur[t]

\* C5: every position recorded in the ledger or returned by an accepted order
\* has CASH >= 0 and every asset quantity >= 0, whatever integer amount the
\* calls were made with.
C5_NonNegative ==
    /\ \A i \in 1..Len(ledger) :
          \A k \in DOMAIN ledger[i].positions : ledger[i].positions[k] >= 0
    /\ \A t \in Tasks :
          rs[t].kind = "position" => \A k \in DOMAIN rs[t].pos : rs[t].pos[k] >= 0

\* C6: with the agent identity configured, a buy or sell of a .SH/.SZ symbol
\* with qty % 100 # 0 is rejected with a suggestion naming the two
\* neighbouring multiples of 100 (floor and floor + 100), before the lock is
\* taken or the position read: the call has done nothing else.
C6_LotRejection ==
    \A t \in Tasks :
        (Finished(t) /\ signature # "none"
            /\ Market(sym[t]) = "cn" /\ amt[t] % 100 # 0)
        => /\ IsErr(rs[t], "LotSize")
           /\ rs[t].suggestion[1] % 100 = 0
           /\ rs[t].suggestion[1] < amt[t]
           /\ amt[t] < rs[t].suggestion[2]
           /\ rs[t].suggestion[2] = rs[t].suggestion[1] + 100
           /\ fx[t] = {}
           /\ DOMAIN cur[t] = {}

\* C6 witness: an order of 101 shares of the CN symbol was rejected with the
\* suggestion 100 or 200
C6_Witness ==
    \E t \in Tasks :
        /\ IsErr(rs[t], "LotSize")
        /\ sym[t] = CN /\ amt[t] = 101
        /\ rs[t].suggestion = <<100, 200>>

\* C7 as stated: after an accepted same-day buy of b shares of a CN symbol,
\* a sell attempt of b + 1 shares of it on the same day is rejected and the
\* rejection reports boughtToday = b.
C7_Original ==
    \A t \in Tasks :
        (/\ Finished(t) /\ op[t] = "sell" /\ Market(sym[t]) = "cn"
         /\ signature # "none"
         /\ \E i \in 1..Len(ledger) :
               /\ ledger[i].action = "buy" /\ ledger[i].symbol = sym[t]
               /\ ledger[i].date = tdate[t]
               /\ ledger[i].amount = amt[t] - 1)
        => /\ IsErr(rs[t], "T1Violation")
           /\ rs[t].bought_today = amt[t] - 1

\* C7 amended: when the day's recorded buys of a CN symbol total b > 0, a
\* sell attempt of it on the same day for a lot-sized quantity that the
\* position covers but that exceeds held - b is rejected with the T+1 error
\* reporting boughtToday = b, sellable = max(0, held - b) and the quantity.
C7_T1Rejection ==
    \A t \in Tasks :
        LET b == Total(Len(ledger), "buy", sym[t], tdate[t]) IN
        (/\ Finished(t) /\ op[t] = "sell" /\ Market(sym[t]) = "cn"
         /\ amt[t] % 100 = 0
         /\ PriceKnown(tdate[t], sym[t])
         /\ sym[t] \in DOMAIN cur[t]
         /\ cur[t][sym[t]] >= amt[t]
         /\ b > 0
         /\ amt[t] > cur[t][sym[t]] - b)
        => /\ IsErr(rs[t], "T1Violation")
           /\ rs[t].bought_today = b
           /\ rs[t].sellable_today = Max0(cur[t][sym[t]] - b)
           /\ rs[t].want_to_sell = amt[t]

\* C7 witness: 100 shares bought today, 200 held, a sell of 200 rejected
C7_Witness ==
    \E t \in Tasks :
        /\ IsErr(rs[t], "T1Violation")
        /\ amt[t] = 200 /\ rs[t].bought_today = 100
        /\ rs[t].total_position = 200

\* First ledger record of date d (0: none)
FirstOn(d) ==
    IF \E i \in 1..Len(ledger) : ledger[i].date = d
    THEN CHOOSE i \in 1..Len(ledger) :
            /\ ledger[i].date = d
            /\ \A j \in 1..(i - 1) : ledger[j].date # d
    ELSE 0

\* C8: in ledger mode with calls one after another, on every trading date
\* with an order the total quantity of the CN symbol sold by accepted sells
\* is at most the quantity held before the date's first order, and every
\* accepted sell had amount <= held - (sum of the date's buys recorded
\* before it).
C8_T1Bound ==
    /\ \A d \in Dates :
          FirstOn(d) # 0 =>
             Total(Len(ledger), "sell", CN, d) <= Get(StoreBefore(FirstOn(d)), CN, 0)
    /\ \A i \in 1..Len(ledger) :
          (ledger[i].action = "sell" /\ ledger[i].symbol = CN) =>
             ledger[i].amount <=
                Get(StoreBefore(i), CN, 0) - Total(i - 1, "buy", CN, ledger[i].date)

ValidationErrors ==
    {"LotSize", "SymbolNotFound", "InsufficientCash", "NoPosition",
     "InsufficientShares", "T1Violation"}

\* C9: a call that ends in a validation rejection has appended no ledger
\* record, has not set the order-occurred flag and has not invoked the chain
\* client.
C9_RejectionFrame ==
    \A t \in Tasks :
        (rs[t].kind = "error" /\ rs[t].error \in ValidationErrors)
        => fx[t] \cap {"append", "chain", "chainfail", "flag"} = {}

\* C9 witness: an order was rejected for insufficient cash after its read
C9_Witness ==
    \E t \in Tasks : IsErr(rs[t], "InsufficientCash") /\ "read" \in fx[t]

ChainCauses ==
    {"wallet_or_key_not_set", "token_address_not_found", "from_key",
     "account_data", "gas_pricing", "insufficient_gas_balance",
     "send_raw_transaction"}

\* C10: in chain mode, whenever the transaction engine fails, the call
\* returns (does not raise) an error carrying the cause, returns no position,
\* writes no ledger record and does not set the order-occurred flag.
C10_ChainFailure ==
    \A t \in Tasks :
        (pc[t] = "idle" /\ "chainfail" \in fx[t])
        => /\ IsErr(rs[t], "BlockchainTransactionFailed")
           /\ rs[t].cause \in ChainCauses
           /\ fx[t] \cap {"append", "flag"} = {}
           /\ Len(ledger) = 0

\* C10 witness: the broadcast of a chain-mode order failed
C10_Witness ==
    \E t \in Tasks :
        /\ IsErr(rs[t], "BlockchainTransactionFailed")
        /\ rs[t].cause = "send_raw_transaction"
        /\ "chain" \in fx[t]

\* C11: with the agent identity present, a call that got a position from the
\* store (whatever its keys) ends by returning a new position or an object
\* with an error key; it never raises.
C11_TwoShapes ==
    \A t \in Tasks :
        (Finished(t) /\ signature # "none" /\ cur[t] # NoPos)
        => rs[t].kind \in {"position", "error"}

\* The validation rules in the order the specification lists them
RuleOrder ==
    <<"Identity", "LotSize", "SymbolNotFound", "InsufficientCash",
      "NoPosition", "InsufficientShares", "T1Violation">>

\* The order (o, s, a) on date d against position pos, b shares of s bought
\* on d, violates the rule
Breaks(rule, o, s, a, d, pos, b) ==
    CASE rule = "Identity" -> signature = "none"
      [] rule = "LotSize" -> Market(s) = "cn" /\ a % 100 # 0
      [] rule = "SymbolNotFound" -> ~PriceKnown(d, s)
      [] rule = "InsufficientCash" ->
            /\ o = "buy" /\ "CASH" \in DOMAIN pos
            /\ pos["CASH"] - OpenPrice(d, s) * a < 0
      [] rule = "NoPosition" -> o = "sell" /\ s \notin DOMAIN pos
      [] rule = "InsufficientShares" -> o = "sell" /\ Get(pos, s, 0) < a
      [] rule = "T1Violation" ->
            /\ o = "sell" /\ Market(s) = "cn" /\ b > 0
            /\ a > Get(pos, s, 0) - b

\* The rules the task's order violates
Broken(t) ==
    { rule \in {RuleOrder[i] : i \in 1..Len(RuleOrder)} :
        Breaks(rule, op[t], sym[t], amt[t], tdate[t], cur[t],
               Total(Len(ledger), "buy", sym[t], tdate[t])) }

\* The first rule of RuleOrder that is in V
Earliest(V) ==
    RuleOrder[CHOOSE i \in 1..Len(RuleOrder) :
                /\ RuleOrder[i] \in V
                /\ \A j \in 1..(i - 1) : RuleOrder[j] \notin V]

\* The result reports the violation of the rule
Reports(r, rule) ==
    IF rule = "Identity"
    THEN r.kind = "raised" /\ r.exc = "ValueError"
    ELSE IsErr(r, rule)

\* C12: with calls one after another, a finished order that violates one or
\* several rules reports exactly the earliest violated rule of the order
\* identity, lot size, symbol/price, cash | no position, shares, T+1; the two
\* first are reported before anything is read, and an order violating no rule
\* is not rejected by a validation rule.
C12_FirstFailure ==
    \A t \in Tasks :
        (Finished(t) /\ ("read" \in fx[t] => cur[t] # NoPos))
        => IF Broken(t) = {}
           THEN /\ ~(rs[t].kind = "error" /\ rs[t].error \in ValidationErrors)
                /\ ~Reports(rs[t], "Identity")
           ELSE /\ Reports(rs[t], Earliest(Broken(t)))
                /\ Earliest(Broken(t)) \in {"Identity", "LotSize"} => fx[t] = {}
                /\ fx[t] \subseteq {"lock", "read"}

\* C12 witness: a sell of an unlisted symbol that the position does not hold
\* (two rules violated) was rejected for the unknown symbol
C12_Witness ==
    \E t \in Tasks :
        /\ Finished(t) /\ op[t] = "sell"
        /\ "read" \in fx[t] /\ cur[t] # NoPos
        /\ {"SymbolNotFound", "NoPosition", "InsufficientShares"} \subseteq Broken(t)
        /\ IsErr(rs[t], "SymbolNotFound")

\* C13: without the agent identity a finished call has raised ValueError and
\* done nothing else: no lot-size result, no lock, no read of the position,
\* no record, no chain call, no flag.
C13_IdentityFatal ==
    \A t \in Tasks :
        (Finished(t) /\ signature = "none")
        => /\ rs[t] = [kind |-> "raised", exc |-> "ValueError"]
           /\ fx[t] = {}
           /\ cur[t] = NoPos
           /\ lockHolder = NoTask
           /\ ledger = << >>
           /\ ~ifTrade

\* C13 witness: an order that also violates the lot size raised for the
\* missing identity
C13_Witness ==
    \E t \in Tasks :
        /\ Finished(t) /\ signature = "none"
        /\ sym[t] = CN /\ amt[t] = 101
        /\ rs[t].kind = "raised"

\* The step makes the task's call return a new position
Returned(t) == rs[t].kind # "position" /\ rs'[t].kind = "position"

\* C14: the order-occurred flag starts unset, every step that returns a new
\* position sets it, and a step that sets it (or writes it) is the return of
\* a new position, after the append in ledger mode and after the broadcast
\* returned a transaction hash in chain mode; so the flag is set if and only
\* if some call has returned a new position.
C14_FlagIffAccepted ==
    /\ [](\A t \in Tasks : rs[t].kind = "position" => ifTrade)
    /\ [][/\ (\E t \in Tasks : Returned(t)) => ifTrade'
          /\ \A t \in Tasks : ("flag" \in fx'[t] /\ "flag" \notin fx[t]) => Returned(t)
          /\ ifTrade' # ifTrade =>
                \E t \in Tasks :
                    /\ Returned(t)
                    /\ IF useBlockchain
                       THEN /\ "chain" \in fx[t] /\ "chainfail" \notin fx[t]
                            /\ "append" \notin fx[t]
                       ELSE "append" \in fx[t]]_vars

\* C14 witness: a chain-mode order was accepted and the flag is set
C14_Witness ==
    \E t \in Tasks :
        /\ useBlockchain /\ ifTrade
        /\ Finished(t) /\ rs[t].kind = "position"
        /\ "chain" \in fx[t] /\ "flag" \in fx[t]

\* Highest id of the ledger (0: empty ledger)
MaxId(led) ==
    IF led = << >> THEN 0
    ELSE led[CHOOSE i \in 1..Len(led) : \A j \in 1..Len(led) : led[j].id <= led[i].id].id

\* C15: in ledger mode with calls one after another, the i-th record of the
\* ledger has id i; a step that changes the ledger appends one record of the
\* calling order, with id = previous maximum id + 1, to the unchanged
\* previous records, and is the only append of that call; a call that
\* returns a new position has appended its record.
C15_AppendOnly ==
    /\ [](\A i \in 1..Len(ledger) : ledger[i].id = i)
    /\ [][/\ ledger' # ledger =>
                \E t \in Tasks :
                    /\ pc[t] = "dispatch" /\ "append" \notin fx[t]
                    /\ Len(ledger') = Len(ledger) + 1
                    /\ SubSeq(ledger', 1, Len(ledger)) = ledger
                    /\ ledger'[Len(ledger')].id = MaxId(ledger) + 1
                    /\ ledger'[Len(ledger')].action = op[t]
                    /\ ledger'[Len(ledger')].symbol = sym[t]
                    /\ ledger'[Len(ledger')].amount = amt[t]
          /\ \A t \in Tasks :
                (Returned(t) /\ ~useBlockchain) => "append" \in fx[t]]_vars

\* C15 witness: three orders were accepted one after another
C15_Witness ==
    /\ Len(ledger) = 3
    /\ ledger[3].id = 3
    /\ \A t \in Tasks : pc[t] = "idle"

\* C16: a call that appended a ledger record ran in ledger mode and did not
\* invoke the chain client; a call that invoked the chain client ran in
\* chain mode, invoked it once and appended nothing; a call that returned a
\* new position did exactly one of the two.
C16_ExclusiveDispatch ==
    /\ [](\A t \in Tasks :
            /\ "append" \in fx[t] => (~useBlockchain /\ "chain" \notin fx[t])
            /\ "chain" \in fx[t] => (useBlockchain /\ "append" \notin fx[t])
            /\ rs[t].kind = "position" =>
                  (("append" \in fx[t]) # ("chain" \in fx[t])))
    /\ [][\A t \in Tasks :
            /\ (pc[t] = "dispatch" /\ "chain" \in fx'[t]) =>
                  ("chain" \notin fx[t] /\ pc'[t] # "dispatch" /\ ledger' = ledger)
            /\ (pc[t] = "dispatch" /\ "append" \in fx'[t]) =>
                  ("append" \notin fx[t] /\ pc'[t] # "dispatch")]_vars

\* C16 witness: a ledger-mode order was accepted with its record appended and
\* no chain call
C16_Witness ==
    \E t \in Tasks :
        /\ ~useBlockchain /\ Finished(t) /\ rs[t].kind = "position"
        /\ "append" \in fx[t] /\ "chain" \notin fx[t]
        /\ Len(ledger) > 0

RECURSIVE DecValue(_)
\* The number a sequence of decimal digits denotes
DecValue(str) ==
    IF str = << >> THEN 0
    ELSE LET c == str[Len(str)]
             v == CHOOSE n \in 0..9 : Digits(n) = <<c>>
         IN  10 * DecValue(SubSeq(str, 1, Len(str) - 1)) + v

IsDigit(c) == c \in {"0", "1", "2", "3", "4", "5", "6", "7", "8", "9"}

\* str is the decimal string of the integer n * 10^k
Denotes(str, n, k) ==
    IF n = 0 THEN str = <<"0">>
    ELSE LET body == IF n < 0 THEN Tail(str) ELSE str
             lead == SubSeq(body, 1, Len(body) - k)
         IN  /\ n < 0 => Head(str) = "-"
             /\ Len(body) > k
             /\ \A i \in 1..Len(body) : IsDigit(body[i])
             /\ body[1] # "0"
             /\ \A i \in (Len(body) - k + 1)..Len(body) : body[i] = "0"
             /\ DecValue(lead) = (IF n < 0 THEN 0 - n ELSE n)

\* C17: the transfer a chain-mode call hands to the chain client carries a
\* memo whose token_address is the asset token and whose request and offer
\* are decimal strings; for a buy the offer is price*qty * 10^6 and the
\* request qty * 10^18, and the quote token is sent; for a sell the request
\* is price*qty * 10^6 and the offer qty * 10^18, and the asset token is
\* sent; the amount sent is the offer.
C17_MemoDirection ==
    \A t \in Tasks :
        tx[t] # NoTx =>
            LET m == tx[t].memo
                cash == OpenPrice(tdate[t], sym[t]) * amt[t]
            IN  /\ m.token_address = StockTokenAddress(sym[t])
                /\ m.type = "LIMIT"
                /\ Denotes(m.offer, tx[t].amount.units, tx[t].amount.decimals)
                /\ IF op[t] = "buy"
                   THEN /\ Denotes(m.offer, cash, 6)
                        /\ Denotes(m.request, amt[t], 18)
                        /\ tx[t].token_address = UsdcAddress
                   ELSE /\ Denotes(m.request, cash, 6)
                        /\ Denotes(m.offer, amt[t], 18)
                        /\ tx[t].token_address = StockTokenAddress(sym[t])

\* C17 witness: a chain-mode sell of 100 shares handed its transfer to the
\* chain client
C17_Witness ==
    \E t \in Tasks :
        /\ op[t] = "sell" /\ amt[t] = 100
        /\ tx[t] # NoTx /\ "chain" \in fx[t]
        /\ Len(tx[t].memo.offer) = 21

\* Time at which the data of a snapshot was obtained from the chain
ObtainedAt(snap) == snap.block_number

\* C18: a get_gas_pricing_data call that starts less than 15 time units
\* after the cached snapshot was fetched returns that snapshot without any
\* fetch attempt, also when that fetch had succeeded after failed attempts
\* and cooldowns; a call that finds the snapshot expired and returns has
\* fetched a new one.
C18_SnapshotReuse ==
    gasResult.kind \in {"snapshot", "raised"} =>
        LET p == gasResult.prior IN
        /\ (p # NoSnapshot /\ gasResult.start - ObtainedAt(p) < 15)
              => /\ gasResult.kind = "snapshot"
                 /\ gasResult.snap = p
                 /\ gasResult.attempts = 0
        /\ (p # NoSnapshot /\ gasResult.start - p.timestamp >= 15
                /\ gasResult.kind = "snapshot")
              => /\ gasResult.snap # p
                 /\ gasResult.attempts >= 1
                 /\ ObtainedAt(gasResult.snap) >= gasResult.start

\* C19: a snapshot returned by get_gas_pricing_data was obtained from the
\* chain less than 15 time units before the call started.
C19_FreshSnapshot ==
    gasResult.kind = "snapshot" =>
        gasResult.start - ObtainedAt(gasResult.snap) < 15

\* C19 witness: a call returned the cached snapshot at the age of 14
C19_Witness ==
    /\ gasResult.kind = "snapshot"
    /\ gasResult.attempts = 0
    /\ gasResult.start - ObtainedAt(gasResult.snap) = 14

\* C20: a call makes at most 5 attempts; it returns at the k-th attempt, the
\* first that succeeds, 10 * (k - 1) time units after its start with the new
\* snapshot cached; after the 5th failure it raises without a further wait,
\* 40 time units after its start, the cache being as the call found it; and
\* every call ends.
C20_BoundedRetry ==
    /\ [](/\ attempt < 5
          /\ gasResult.kind = "snapshot" =>
                /\ gasResult.attempts <= 5
                /\ gasResult.attempts >= 1 =>
                      /\ gasResult.end - gasResult.start
                            = 10 * (gasResult.attempts - 1)
                      /\ gasPriceCache = gasResult.snap
          /\ gasResult.kind = "raised" =>
                /\ gasResult.attempts = 5
                /\ gasResult.end - gasResult.start = 40
                /\ gasPriceCache = gasResult.prior)
    /\ [][/\ (gpc = "fetch" /\ gasPriceCache' # gasPriceCache) =>
                (gpc' = "idle" /\ gasResult'.kind = "snapshot")
          /\ (gpc = "fetch" /\ gpc' = "idle" /\ gasResult'.kind = "raised") =>
                /\ gasPriceCache' = gasPriceCache
                /\ gasPriceCacheTime' = gasPriceCacheTime]_vars
    /\ (gpc # "idle" ~> gpc = "idle")

\* C20 witness: a call raised after its fifth failed attempt
C20_Witness ==
    /\ gasResult.kind = "raised"
    /\ gasResult.attempts = 5
    /\ gpc = "idle"

(***************************************************************************)
(* C28 (as stated): in chain mode neither buy nor sell acquires the        *)
(* per-agent position lock at any point of its execution.                  *)
(***************************************************************************)
C28_Original ==
    useBlockchain =>
        \A t \in Tasks : "lock" \notin fx[t] /\ lockHolder # t

(***************************************************************************)
(* C28 (amended): in chain mode sell never acquires the position lock;     *)
(* buy acquires it exactly around its position read and has released it    *)
(* before validation, dispatch and return, so no order holds the lock      *)
(* outside the read step of a buy.                                         *)
(***************************************************************************)
C28_ChainLock ==
    useBlockchain =>
        \A t \in Tasks :
            /\ op[t] = "sell" => "lock" \notin fx[t] /\ lockHolder # t
            /\ lockHolder = t => op[t] = "buy" /\ pc[t] = "read"
            /\ (op[t] = "buy" /\ "read" \in fx[t]) => "lock" \in fx[t]

C28_Witness ==
    /\ useBlockchain
    /\ \E t \in Tasks : lockHolder = t /\ op[t] = "buy" /\ pc[t] = "read"
    /\ \E t \in Tasks : op[t] = "sell" /\ pc[t] = "dispatch" /\ "lock" \notin fx[t]

\* The steps of a complete send, in order
SendOrder == <<"account", "gas", "build", "estimate", "sign", "broadcast">>

IsPrefix(a, b) == Len(a) <= Len(b) /\ SubSeq(b, 1, Len(a)) = a

Did(s, step) == \E i \in DOMAIN sfx[s] : sfx[s][i] = step

SendFailed(s, cause) == sres[s].kind = "raised" /\ sres[s].cause = cause

(***************************************************************************)
(* C21: every send_token_with_memo call performs account fetch, gas        *)
(* snapshot, build, sign and broadcast in this order, each at most once;   *)
(* the account is fetched from the node in every call that gets a gas      *)
(* snapshot, cached or not, so every broadcast transaction carries the     *)
(* number of earlier transactions of its sender as nonce; a broadcast      *)
(* follows a successful signing only, and a hash is returned only by a     *)
(* call that went through all steps and broadcast.                         *)
(***************************************************************************)
C21_StepOrder ==
    /\ \A s \in Senders :
          /\ IsPrefix(sfx[s], SendOrder)
          /\ gasData[s] # NoGasData =>
                /\ sfx[s][1] = "account"
                /\ accountData[s] # NoAccount
          /\ (SendFailed(s, "address_mismatch") \/ SendFailed(s, "sign_transaction")
              \/ SendFailed(s, "from_key")) => ~Did(s, "broadcast")
          /\ sres[s].kind = "hash" =>
                /\ sfx[s] = SendOrder
                /\ mempool # << >>
                /\ mempool[Len(mempool)] =
                      [from |-> sres[s].transaction["from"],
                       nonce |-> sres[s].transaction.nonce]
    /\ \A i \in DOMAIN mempool :
          mempool[i].nonce =
             Cardinality({j \in 1..(i - 1) : mempool[j]["from"] = mempool[i]["from"]})

C21_Witness ==
    /\ sendCalls = 2
    /\ sres["s1"].kind = "hash"
    /\ gasData["s1"].cached
    /\ sres["s1"].transaction.nonce = 1

(***************************************************************************)
(* C22: with a native balance of zero a send on Ethereum, Arbitrum or Base *)
(* fails before a transaction is built, signed or broadcast; on BNB the    *)
(* guard does not apply: no send fails for the zero balance, and a call    *)
(* that has its gas snapshot goes on to build (and from there to sign and  *)
(* broadcast like any other).                                              *)
(***************************************************************************)
C22_ZeroBalance ==
    \A s \in Senders :
        (accountData[s] # NoAccount /\ accountData[s].balance = 0) =>
            IF blockchain # "BNB"
            THEN /\ ~Did(s, "build") /\ ~Did(s, "sign") /\ ~Did(s, "broadcast")
                 /\ transaction[s] = NoTx
                 /\ sres[s].kind # "hash"
                 /\ (spc[s] = "idle" /\ gasData[s] # NoGasData) =>
                        SendFailed(s, "insufficient_gas_balance")
            ELSE /\ ~SendFailed(s, "insufficient_gas_balance")
                 /\ (spc[s] = "idle" /\ gasData[s] # NoGasData) => Did(s, "build")

C22_Witness ==
    /\ blockchain = "BNB"
    /\ accountData["s1"] # NoAccount
    /\ accountData["s1"].balance = 0
    /\ sres["s1"].kind = "hash"

\* The fee fields a transaction carries
FeeFieldNames == {"gasPrice", "maxFeePerGas", "maxPriorityFeePerGas"}

FeesOf(txn) == FeeFieldNames \cap DOMAIN txn

\* The call of sender s has handed its transaction to the signer
HandedToSigner(s) == Did(s, "sign")

(***************************************************************************)
(* C23: every transaction handed to the signer carries exactly one fee     *)
(* representation: maxFeePerGas and maxPriorityFeePerGas with type 2 and   *)
(* no gasPrice when the snapshot used is base-fee-aware, gasPrice without  *)
(* maxFeePerGas and maxPriorityFeePerGas otherwise, whatever fee fields    *)
(* build_transaction had put into the transaction.                         *)
(***************************************************************************)
C23_OneFeeRepresentation ==
    \A s \in Senders :
        HandedToSigner(s) =>
            IF gasData[s].snap.use_eip1559
            THEN /\ FeesOf(transaction[s]) = {"maxFeePerGas", "maxPriorityFeePerGas"}
                 /\ transaction[s].type = 2
            ELSE FeesOf(transaction[s]) = {"gasPrice"}

\* A well-formed snapshot: base-fee-aware exactly with a base fee, and then
\* the fee cap and tip but no gas price, otherwise the gas price only
SnapshotShape(g) ==
    /\ g.use_eip1559 <=> g.base_fee # NoBaseFee
    /\ IF g.use_eip1559
       THEN /\ g.max_fee_per_gas = 2 * g.base_fee + g.priority_fee
            /\ g.max_priority_fee_per_gas = g.priority_fee
            /\ "gas_price" \notin DOMAIN g
       ELSE /\ "gas_price" \in DOMAIN g
            /\ {"max_fee_per_gas", "max_priority_fee_per_gas"} \cap DOMAIN g = {}

(***************************************************************************)
(* C24: a gas snapshot is base-fee-aware exactly when the latest block had *)
(* a base fee, and then holds maxFeePerGas = 2*baseFee + priorityFee and   *)
(* maxPriorityFeePerGas = priorityFee and no gasPrice, otherwise gasPrice  *)
(* only; once the gas pricing is written, the fee fields of a send's       *)
(* transaction are those of the snapshot the send used, cached or not,     *)
(* with the snapshot's values.                                             *)
(***************************************************************************)
C24_FeesFromSnapshot ==
    /\ gasPriceCache # NoSnapshot => SnapshotShape(gasPriceCache)
    /\ \A s \in Senders :
          /\ gasData[s] # NoGasData => SnapshotShape(gasData[s].snap)
          /\ Did(s, "estimate") =>
                LET g == gasData[s].snap
                    t == transaction[s]
                IN  IF g.use_eip1559
                    THEN /\ FeesOf(t) = {"maxFeePerGas", "maxPriorityFeePerGas"}
                         /\ t.maxFeePerGas = g.max_fee_per_gas
                         /\ t.maxPriorityFeePerGas = g.max_priority_fee_per_gas
                    ELSE /\ FeesOf(t) = {"gasPrice"}
                         /\ t.gasPrice = g.gas_price

\* The network multiplier, in hundredths
BufferPercent(chain) ==
    CASE chain = "ETHEREUM" -> 125 [] chain = "ARBITRUM" -> 140
      [] chain = "BASE" -> 135 [] chain = "BNB" -> 120

FallbackLimit(chain) == IF chain \in {"ARBITRUM", "BASE"} THEN 150000 ELSE 100000

(***************************************************************************)
(* C25: selecting the gas limit never aborts a send: a call that built its *)
(* transaction gets a gas limit and goes on to signing; the limit is the   *)
(* live estimate times the network multiplier rounded down (Ethereum 1.25, *)
(* Arbitrum 1.40, Base 1.35, BNB 1.20), or, when the estimate failed, the  *)
(* fallback 150000 on Arbitrum and Base and 100000 on Ethereum and BNB.    *)
(***************************************************************************)
C25_GasLimit ==
    \A s \in Senders :
        /\ Did(s, "build") =>
              \/ spc[s] = "estimate"
              \/ SendFailed(s, "build_transaction")
              \/ Did(s, "estimate")
        /\ Did(s, "estimate") =>
              /\ Did(s, "sign") \/ spc[s] = "sign"
              /\ transaction[s].gas \in
                    {(est * BufferPercent(blockchain)) \div 100 : est \in Estimates}
                    \cup {FallbackLimit(blockchain)}

\* Equal up to the case of the letters
SameLetters(a, b) ==
    /\ Len(a) = Len(b)
    /\ \A i \in DOMAIN a :
          \/ a[i] = b[i]
          \/ {a[i], b[i]} \in {{"A", "a"}, {"B", "b"}, {"C", "c"}, {"D", "d"}}

C27_Original ==
    \A s \in Senders :
        SendFailed(s, "account_data") =>
            Cardinality({i \in DOMAIN sfx[s] : sfx[s][i] = "account"}) = MAX_RETRIES

(***************************************************************************)
(* C27 (amended): a failure of the account fetch of a send is not retried: *)
(* the send fails after the single attempt, before a gas snapshot is       *)
(* asked for and with nothing built, signed or broadcast.                  *)
(***************************************************************************)
C27_AccountNotRetried ==
    \A s \in Senders :
        SendFailed(s, "account_data") =>
            /\ sfx[s] = <<"account">>
            /\ accountData[s] = NoAccount
            /\ gasData[s] = NoGasData
            /\ transaction[s] = NoTx

C27_Witness ==
    /\ SendFailed("s1", "account_data")
    /\ sendCalls = 2
    /\ mempool # << >>

\* Value of a hex digit
HexVal(d) == CHOOSE n \in 0..15 : HexDigits[n + 1] = d

IsHexText(text) ==
    /\ Len(text) % 2 = 0
    /\ \A i \in DOMAIN text : \E n \in 0..15 : HexDigits[n + 1] = text[i]

\* bytes.fromhex
RECURSIVE HexDecode(_)
HexDecode(text) ==
    IF text = << >> THEN << >>
    ELSE <<HexVal(text[1]) * 16 + HexVal(text[2])>> \o HexDecode(SubSeq(text, 3, Len(text)))

\* bytes.decode('utf-8') for the characters of the memo alphabet
RECURSIVE Utf8Decode(_)
Utf8Decode(bytes) ==
    IF bytes = << >> THEN << >>
    ELSE IF bytes[1] < 128
    THEN <<CASE bytes[1] = 123 -> "{" [] bytes[1] = 125 -> "}"
             [] bytes[1] = 97 -> "a" [] OTHER -> "?">>
         \o Utf8Decode(Tail(bytes))
    ELSE IF Len(bytes) >= 2 /\ bytes[1] = 195 /\ bytes[2] = 169
    THEN <<"U+00E9">> \o Utf8Decode(SubSeq(bytes, 3, Len(bytes)))
    ELSE <<"?">>

(***************************************************************************)
(* C30: the data of a built transaction is the standard transfer call data *)
(* (as hex text, with or without the 0x prefix) followed by the hex        *)
(* encoding of the UTF-8 memo text and nothing else: the rest after the    *)
(* call data is hex text that decodes to exactly the memo text, for every  *)
(* memo.                                                                   *)
(***************************************************************************)
C30_MemoRoundTrip ==
    \A s \in Senders :
        Did(s, "build") /\ transaction[s] # NoTx =>
            LET data == transaction[s].data
                std == TransferCallData(sarg[s].recipient_address, "amount")
                n == IF data[1] = "0x" THEN Len(std) + 1 ELSE Len(std)
                rest == SubSeq(data, n + 1, Len(data))
            IN  /\ Len(data) >= n
                /\ SubSeq(data, 1, n) \in {std, <<"0x">> \o std}
                /\ IsHexText(rest)
                /\ Utf8Decode(HexDecode(rest)) = sarg[s].memo_text

C30_Witness ==
    /\ sres["s1"].kind = "hash"
    /\ sarg["s1"].memo_text = <<"a", "U+00E9">>
    /\ transaction["s1"].data =
          TransferCallData("0xTrading", "amount") \o <<"6", "1", "c", "3", "a", "9">>

\* A cache and a stamp of the same successful fetch: both in their initial
\* state, or a whole snapshot with the stamp of the call that fetched it
SamePair(cache, stamp) ==
    \/ cache = NoSnapshot /\ stamp = 0
    \/ /\ cache # NoSnapshot
       /\ SnapshotShape(cache)
       /\ cache.timestamp = stamp

\* A step replaces snapshot and stamp together, by a fetch that succeeded in
\* this step
ReplacedBySuccess ==
    \E c \in Callers :
        /\ co[c].pc = "fetch"
        /\ co'[c].pc = "idle"
        /\ gasPriceCache' # NoSnapshot
        /\ gasPriceCache'.block_number = LatestBlockNumber(now)
        /\ gasPriceCache'.timestamp = co[c].current_time
        /\ gasPriceCacheTime' = co[c].current_time

ActionApplied(pos, r) ==
    LET price == OpenPrice(r.date, r.symbol) IN
    IF r.action = "buy"
    THEN BuyNewPosition(pos, r.symbol, r.amount,
                        Get(pos, "CASH", 0) - price * r.amount)
    ELSE SellNewPosition(pos, r.symbol, r.amount, price)

\* C34: in file mode every record of position.jsonl carries the positions of
\* the record before it (the initial position for the first record) with its
\* own action applied, so no accepted order is lost from the last record
C34_NoLostUpdate ==
    ~useBlockchain =>
        \A i \in 1..Len(ledger) :
            ledger[i].positions =
                ActionApplied(IF i = 1 THEN storePos ELSE ledger[i - 1].positions,
                              ledger[i])

C38_SenderIsKeyAddress ==
    /\ [](\A s \in Senders :
            /\ transaction[s] # NoTx
                 => transaction[s]["from"] = KeyAddress(sarg[s].private_key)
            /\ ~SendFailed(s, "address_mismatch"))
    /\ [][\A s \in Senders :
            (spc[s] = "sign" /\ spc'[s] # "sign")
                => /\ SignTransaction(transaction[s], sarg[s].private_key,
                                      TRUE).kind = "raw"
                   /\ spc'[s] = "idle" => SendFailed(s, "sign_transaction")']_vars

\* C38 witness: a send with the second key has passed the signer
C38_Witness ==
    \E s \in Senders :
        /\ spc[s] = "broadcast"
        /\ sarg[s].private_key = "keyB"
        /\ Did(s, "sign")
        /\ transaction[s]["from"] = <<"0", "x", "C", "d">>

\* No piece of the text is, or contains, one of the private keys
KeyFree(text) ==
    \A i \in DOMAIN text :
        /\ text[i][1] # "key"
        /\ \A j \in DOMAIN text[i] : text[i][j] \notin SendKeys

\* The text with every interpolated address blanked
Redacted(text) ==
    [i \in DOMAIN text |->
        IF text[i][1] = "address" THEN <<"address">> ELSE text[i]]

\* C31: the private key is in no error that leaves the chain engine: not in
\* the text of the exception the signer raises, not in the text of the
\* Exception send_token_with_memo raises, and not in the error field buy and
\* sell build from it; the same failure with another key has the same text
\* apart from the address derived from the key
C31_KeyNotEchoed ==
    /\ \A s \in Senders :
          sres[s].kind = "raised" =>
             /\ KeyFree(sres[s].text)
             /\ \A symbol \in Symbols :
                   KeyFree(ChainErrorText(sres[s].cause, symbol, sres[s].text))
             /\ \A key2 \in SendKeys :
                   Redacted(SendErrorText(sres[s].cause,
                                RaisedText(sres[s].cause, key2, << >>), key2))
                       = Redacted(sres[s].text)
    /\ (signed # NoSigned /\ signed.result.kind = "raised") =>
          /\ KeyFree(signed.result.text)
          /\ \A key2 \in SendKeys :
                LET r2 == SignTransaction([from |-> signed.from, nonce |-> 0],
                                          key2, signed.libOk)
                IN  (r2.kind = "raised" /\ r2.cause = signed.result.cause)
                        => Redacted(r2.text) = Redacted(signed.result.text)
    /\ \A cause \in {"wallet_or_key_not_set", "token_address_not_found"},
         symbol \in Symbols :
          KeyFree(ChainErrorText(cause, symbol, << >>))

\* C31 witness: the signer refused a key whose address is not the declared
\* sender, and a send with the other valid key failed in the signing library
C31_Witness ==
    /\ signed # NoSigned
    /\ signed.result.kind = "raised"
    /\ signed.result.cause = "address_mismatch"
    /\ signed.private_key = "keyA"
    /\ signed.from = <<"0", "x", "E", "f">>
    /\ \E s \in Senders :
          /\ SendFailed(s, "sign_transaction")
          /\ sarg[s].private_key = "keyB"

\* C39: in blockchain mode the did_id of the memo of every order handed to
\* the chain client is the address that signs and sends the transfer, the
\* address of the configured private key, so no order is broadcast with a
\* wallet address other than the key's
C39_DidIsSigner ==
    \A t \in Tasks :
        (tx[t] # NoTx /\ "chainfail" \notin fx[t]) =>
            Lower(tx[t].memo.did_id) = Lower(KeyAddress(tx[t].private_key))

\* Two transactions with the same sender and the same nonce
SameNonce(a, b) == a["from"] = b["from"] /\ a.nonce = b.nonce

\* C33: concurrent sends that sign with the same key never use one nonce
\* twice: no two transactions the node took share sender and nonce, and no
\* call holds a signed transaction whose nonce another call's transaction,
\* signed or already sent, carries too
C33_DistinctNonces ==
    /\ \A i, j \in DOMAIN mempool :
          i # j => ~SameNonce(mempool[i], mempool[j])
    /\ \A a, b \in Senders :
          (a # b /\ spc[a] = "broadcast" /\ transaction[b] # NoTx
               /\ (spc[b] = "broadcast" \/ sres[b].kind = "hash"))
            => ~SameNonce(transaction[a], transaction[b])

====
